---------------------------- MODULE Spec2Model ----------------------------
(***************************************************************************)
(* A model of the ChessEngine class of src/ai.js: the position, the move   *)
(* generator, the attack oracle, the move executor, the position key, the  *)
(* evaluator, the minimax search and the draw detectors.                   *)
(*                                                                         *)
(* Conventions.  A text (a FEN, a position key) is a sequence of           *)
(* one-character strings.  A square is <<r, c>> with r the row index       *)
(* (0 is rank 8) and c the column index (0 is file a), as in the source.   *)
(* JavaScript's null is `null' for a piece or promotion field and NoSquare *)
(* for the en-passant target.  Scores are kept in half centipawns          *)
(* (ScoreScale) so that the default positional weight 0.5 stays integral.  *)
(* A function of the source that receives a reference to a position        *)
(* returns, in field S, the value the referenced object holds when the     *)
(* function returns: this is how a write through an alias would show.      *)
(***************************************************************************)
EXTENDS Integers, Sequences, FiniteSets, TLC

\* ===== Constants & Utilities =====

null == "null"
NoSquare == <<>>

Truthy(x) == x # null /\ x # ""

Rows == 0 .. 7

WhitePieces == {"P", "N", "B", "R", "Q", "K"}
BlackPieces == {"p", "n", "b", "r", "q", "k"}
PieceChars == WhitePieces \cup BlackPieces

toLowerCase(p) ==
  CASE p = "P" -> "p" [] p = "N" -> "n" [] p = "B" -> "b"
    [] p = "R" -> "r" [] p = "Q" -> "q" [] p = "K" -> "k"
    [] OTHER -> p

toUpperCase(p) ==
  CASE p = "p" -> "P" [] p = "n" -> "N" [] p = "b" -> "B"
    [] p = "r" -> "R" [] p = "q" -> "Q" [] p = "k" -> "K"
    [] OTHER -> p

oppositeColor(c) == IF c = "w" THEN "b" ELSE "w"

pieceColor(p) ==
  IF ~Truthy(p) THEN null
  ELSE IF p = toUpperCase(p) THEN "w" ELSE "b"

onBoard(r, c) == r >= 0 /\ r < 8 /\ c >= 0 /\ c < 8

filesStr == <<"a", "b", "c", "d", "e", "f", "g", "h">>
Digits == <<"0", "1", "2", "3", "4", "5", "6", "7", "8", "9">>
DigitChar(n) == Digits[n + 1]

\* The value of board[r][c]; only called with (r, c) on the board.
At(S, r, c) == S.board[r][c]

\* The value NaN, apart from every number a clock can hold.
NaN == 0 - 2000000000

\* x++ on a number or on NaN.
Increment(x) == IF x = NaN THEN NaN ELSE x + 1

NoFlags == [double |-> FALSE, enpassant |-> FALSE, castle |-> ""]

Move(fr, fc, tr, tc, p, cap, promo, fl) ==
  [from |-> <<fr, fc>>, to |-> <<tr, tc>>, piece |-> p, capture |-> cap,
   promotion |-> promo, flags |-> fl]

\* The concatenation of f[lo], ..., f[hi], each a sequence (by halves, to
\* keep the evaluation shallow).
RECURSIVE Concat(_, _, _)
Concat(f, lo, hi) ==
  IF lo > hi THEN <<>>
  ELSE IF lo = hi THEN f[lo]
  ELSE Concat(f, lo, (lo + hi) \div 2) \o Concat(f, (lo + hi) \div 2 + 1, hi)

\* The sum of f[lo], ..., f[hi].
RECURSIVE Sum(_, _, _)
Sum(f, lo, hi) ==
  IF lo > hi THEN 0
  ELSE IF lo = hi THEN f[lo]
  ELSE Sum(f, lo, (lo + hi) \div 2) + Sum(f, (lo + hi) \div 2 + 1, hi)

\* ===== Attack detection =====

knightDeltas ==
  << <<2, 1>>, <<2, -1>>, <<-2, 1>>, <<-2, -1>>,
     <<1, 2>>, <<1, -2>>, <<-1, 2>>, <<-1, -2>> >>

diagDirs == << <<1, 1>>, <<1, -1>>, <<-1, 1>>, <<-1, -1>> >>
straightDirs == << <<1, 0>>, <<-1, 0>>, <<0, 1>>, <<0, -1>> >>
queenDirs == diagDirs \o straightDirs

\* A ray of attack that looks through the pieces in its way.
RECURSIVE LastOnRay(_, _, _, _, _)
LastOnRay(S, r, c, dr, dc) ==
  IF ~onBoard(r, c) THEN ""
  ELSE LET Beyond(t) == IF Truthy(t) THEN t ELSE At(S, r, c)
       IN  Beyond(LastOnRay(S, r + dr, c + dc, dr, dc))

\* The first occupied square's piece along a ray from (r, c), "" if none.
RECURSIVE FirstOnRay(_, _, _, _, _)
FirstOnRay(S, r, c, dr, dc) ==
  IF ~onBoard(r, c) THEN ""
  ELSE IF Truthy(At(S, r, c)) THEN At(S, r, c)
  ELSE FirstOnRay(S, r + dr, c + dc, dr, dc)

isSquareAttacked(S, r, c, attacker) ==
  LET pd == IF attacker = "w" THEN -1 ELSE 1
      pr == r - pd
      IsA(rr, cc, kind) ==
        /\ onBoard(rr, cc)
        /\ Truthy(At(S, rr, cc))
        /\ toLowerCase(At(S, rr, cc)) = kind
        /\ pieceColor(At(S, rr, cc)) = attacker
      RayHit(d, kinds) ==
        LET t == FirstOnRay(S, r + d[1], c + d[2], d[1], d[2])
        IN  Truthy(t) /\ pieceColor(t) = attacker /\ toLowerCase(t) \in kinds
  IN  \/ \E pc \in {c - 1, c + 1} : IsA(pr, pc, "p")
      \/ \E i \in 1 .. 8 :
           IsA(r + knightDeltas[i][1], c + knightDeltas[i][2], "n")
      \/ \E i \in 1 .. 4 : RayHit(diagDirs[i], {"b", "q"})
      \/ \E i \in 1 .. 4 : RayHit(straightDirs[i], {"r", "q"})
      \/ \E dr \in -1 .. 1, dc \in -1 .. 1 :
           ~(dr = 0 /\ dc = 0) /\ IsA(r + dr, c + dc, "k")

\* The first square in row-major order that holds the colour's king.
findKing(S, color) ==
  LET target == IF color = "w" THEN "K" ELSE "k"
      hits == {i \in 0 .. 63 : At(S, i \div 8, i % 8) = target}
  IN  IF hits = {} THEN NoSquare
      ELSE LET i == CHOOSE x \in hits : \A y \in hits : x <= y
           IN  <<i \div 8, i % 8>>

\* ===== Move Generation =====

\* Promotions that are all to a queen.
promoKindsQueens == <<"q", "q", "q", "q">>

promoKinds == <<"q", "r", "b", "n">>

pawnMoves(S, r, c) ==
  LET p == At(S, r, c)
      col == pieceColor(p)
      dir == IF col = "w" THEN -1 ELSE 1
      startRow == IF col = "w" THEN 6 ELSE 1
      enemy == oppositeColor(col)
      aheadR == r + dir
      twoR == r + 2 * dir
      Promos(tr, tc, cap) ==
        [i \in 1 .. 4 |-> Move(r, c, tr, tc, p, cap, promoKinds[i], NoFlags)]
      push ==
        IF onBoard(aheadR, c) /\ ~Truthy(At(S, aheadR, c))
        THEN (IF aheadR = 0 \/ aheadR = 7
              THEN Promos(aheadR, c, null)
              ELSE <<Move(r, c, aheadR, c, p, null, null, NoFlags)>>)
             \o (IF r = startRow /\ ~Truthy(At(S, twoR, c))
                 THEN <<Move(r, c, twoR, c, p, null, null,
                             [NoFlags EXCEPT !.double = TRUE])>>
                 ELSE <<>>)
        ELSE <<>>
      Diag(dc) ==
        LET nc == c + dc
            nr == r + dir
        IN  IF ~onBoard(nr, nc) THEN <<>>
            ELSE LET target == At(S, nr, nc)
                 IN  (IF Truthy(target) /\ pieceColor(target) = enemy
                      THEN (IF nr = 0 \/ nr = 7
                            THEN Promos(nr, nc, target)
                            ELSE <<Move(r, c, nr, nc, p, target, null, NoFlags)>>)
                      ELSE <<>>)
                     \o (IF S.enPassant # NoSquare /\ S.enPassant[1] = nr
                            /\ S.enPassant[2] = nc
                         THEN <<Move(r, c, nr, nc, p,
                                     IF col = "w" THEN "p" ELSE "P", null,
                                     [NoFlags EXCEPT !.enpassant = TRUE])>>
                         ELSE <<>>)
  IN  push \o Diag(-1) \o Diag(1)

\* One step onto (nr, nc): a quiet move, a capture of an enemy, or nothing.
StepMove(S, r, c, nr, nc) ==
  LET p == At(S, r, c)
      enemy == oppositeColor(pieceColor(p))
  IN  IF ~onBoard(nr, nc) THEN <<>>
      ELSE LET t == At(S, nr, nc)
           IN  IF ~Truthy(t)
               THEN <<Move(r, c, nr, nc, p, null, null, NoFlags)>>
               ELSE IF pieceColor(t) = enemy
               THEN <<Move(r, c, nr, nc, p, t, null, NoFlags)>>
               ELSE <<>>

\* A generator that gives the knights no moves.
knightMovesNone(S, r, c) == <<>>

knightMoves(S, r, c) ==
  Concat([i \in 1 .. 8 |->
            StepMove(S, r, c, r + knightDeltas[i][1], c + knightDeltas[i][2])],
         1, 8)

\* The moves of the piece on (r, c) along one ray, from (nr, nc) outwards.
RECURSIVE RayMoves(_, _, _, _, _, _, _)
RayMoves(S, r, c, nr, nc, dr, dc) ==
  IF ~onBoard(nr, nc) THEN <<>>
  ELSE IF ~Truthy(At(S, nr, nc))
  THEN StepMove(S, r, c, nr, nc) \o RayMoves(S, r, c, nr + dr, nc + dc, dr, dc)
  ELSE StepMove(S, r, c, nr, nc)

slidingMoves(S, r, c, dirs) ==
  Concat([i \in 1 .. Len(dirs) |->
            RayMoves(S, r, c, r + dirs[i][1], c + dirs[i][2],
                     dirs[i][1], dirs[i][2])],
         1, Len(dirs))

\* The (dr, dc) pairs of the king's double loop, in the loop's order.
kingDeltas ==
  << <<-1, -1>>, <<-1, 0>>, <<-1, 1>>, <<0, -1>>,
     <<0, 1>>, <<1, -1>>, <<1, 0>>, <<1, 1>> >>

\* Castling with the attack tests left out.
kingPathUnchecked(S, row, wing, enemy) == TRUE

\* The three attack tests of a castling branch: the king's start, transit
\* and destination squares.
kingPathSafe(S, row, wing, enemy) ==
  /\ ~isSquareAttacked(S, row, 4, enemy)
  /\ ~isSquareAttacked(S, row, IF wing = "K" THEN 5 ELSE 3, enemy)
  /\ ~isSquareAttacked(S, row, IF wing = "K" THEN 6 ELSE 2, enemy)

castleMoves(S, r, c) ==
  LET p == At(S, r, c)
      col == pieceColor(p)
      enemy == oppositeColor(col)
      Empty(rr, cc) == ~Truthy(At(S, rr, cc))
      Castle(row, side) ==
        Move(row, 4, row, IF side = "K" THEN 6 ELSE 2, p, null, null,
             [NoFlags EXCEPT !.castle = side])
      KSide(row) ==
        IF Empty(row, 5) /\ Empty(row, 6) /\ kingPathSafe(S, row, "K", enemy)
        THEN <<Castle(row, "K")>> ELSE <<>>
      QSide(row) ==
        IF Empty(row, 3) /\ Empty(row, 2) /\ Empty(row, 1)
           /\ kingPathSafe(S, row, "Q", enemy)
        THEN <<Castle(row, "Q")>> ELSE <<>>
  IN  (IF col = "w" /\ r = 7 /\ c = 4
       THEN (IF S.castling.wK THEN KSide(7) ELSE <<>>)
            \o (IF S.castling.wQ THEN QSide(7) ELSE <<>>)
       ELSE <<>>)
      \o (IF col = "b" /\ r = 0 /\ c = 4
          THEN (IF S.castling.bK THEN KSide(0) ELSE <<>>)
               \o (IF S.castling.bQ THEN QSide(0) ELSE <<>>)
          ELSE <<>>)

kingMoves(S, r, c) ==
  Concat([i \in 1 .. 8 |->
            StepMove(S, r, c, r + kingDeltas[i][1], c + kingDeltas[i][2])],
         1, 8)
  \o castleMoves(S, r, c)

\* The moves of the piece on (r, c), none when it is not the mover's.
pieceMoves(S, r, c) ==
  LET p == At(S, r, c)
      t == toLowerCase(p)
  IN  IF ~Truthy(p) THEN <<>>
      ELSE IF pieceColor(p) # S.activeColor THEN <<>>
      ELSE CASE t = "p" -> pawnMoves(S, r, c)
             [] t = "n" -> knightMoves(S, r, c)
             [] t = "b" -> slidingMoves(S, r, c, diagDirs)
             [] t = "r" -> slidingMoves(S, r, c, straightDirs)
             [] t = "q" -> slidingMoves(S, r, c, queenDirs)
             [] t = "k" -> kingMoves(S, r, c)
             [] OTHER -> <<>>

generatePseudoLegalMoves(S) ==
  Concat([i \in 0 .. 63 |-> pieceMoves(S, i \div 8, i % 8)], 0, 63)

\* === Execute move on state S ===

\* board with board[r][c] = v.
SetSq(b, r, c, v) == [b EXCEPT ![r][c] = v]

\* Castling that moves the king and leaves the rook in its corner.
castleBoardKingOnly(b, tr, tc, piece, wing) == SetSq(b, tr, tc, piece)

\* The castling branch of doMove: the king to (tr, tc), the rook from its
\* corner to the king's other side.
castleBoard(b, tr, tc, piece, wing) ==
  IF wing = "K"
  THEN LET k1 == SetSq(b, tr, tc, piece)
           k2 == SetSq(k1, tr, 5, k1[tr][7])
       IN  SetSq(k2, tr, 7, "")
  ELSE IF wing = "Q"
  THEN LET q1 == SetSq(b, tr, tc, piece)
           q2 == SetSq(q1, tr, 3, q1[tr][0])
       IN  SetSq(q2, tr, 0, "")
  ELSE b

\* The rights with the one of corner (r, f) cleared.
Corner(c, r, f) ==
  [wQ |-> c.wQ /\ ~(r = 7 /\ f = 0), wK |-> c.wK /\ ~(r = 7 /\ f = 7),
   bQ |-> c.bQ /\ ~(r = 0 /\ f = 0), bK |-> c.bK /\ ~(r = 0 /\ f = 7)]

\* The rights update with only its king rule.
updateCastlingKingOnly(S, m, piece) ==
  IF toLowerCase(piece) = "k"
  THEN IF piece = toUpperCase(piece)
       THEN [S.castling EXCEPT !.wK = FALSE, !.wQ = FALSE]
       ELSE [S.castling EXCEPT !.bK = FALSE, !.bQ = FALSE]
  ELSE S.castling

\* "update castling rights" of doMove: the king rule, the rook-moves rule and
\* the rook-captured rule.
updateCastling(S, m, piece) ==
  LET c1 == updateCastlingKingOnly(S, m, piece)
      c2 == IF toLowerCase(piece) = "r"
            THEN Corner(c1, m.from[1], m.from[2]) ELSE c1
  IN  IF Truthy(m.capture) /\ toLowerCase(m.capture) = "r"
      THEN Corner(c2, m.to[1], m.to[2]) ELSE c2

\* The clock update with captures not resetting it.
updateHalfmovePawnOnly(S, m, piece) ==
  IF toLowerCase(piece) = "p" THEN 0 ELSE S.halfmove + 1

\* The halfmove update of doMove.
updateHalfmove(S, m, piece) ==
  IF toLowerCase(piece) = "p" \/ Truthy(m.capture) THEN 0 ELSE Increment(S.halfmove)

\* An en-passant capture that clears the target square instead of the
\* captured pawn's square.
captureEnPassantOnTarget(b, m) ==
  IF m.flags.enpassant THEN SetSq(b, m.to[1], m.to[2], "") ELSE b

\* The en-passant branch of doMove: the pawn on the mover's source row and
\* the destination column is removed.
captureEnPassant(b, m) ==
  IF m.flags.enpassant THEN SetSq(b, m.from[1], m.to[2], "") ELSE b

\* The target update that only ever sets the target.
updateEnPassantKept(S, m, piece) ==
  IF toLowerCase(piece) = "p" /\ m.to[1] - m.from[1] \in {2, -2}
  THEN <<(m.from[1] + m.to[1]) \div 2, m.from[2]>> ELSE S.enPassant

\* "enPassant target" of doMove: cleared, then set after a two-row pawn move.
updateEnPassant(S, m, piece) ==
  IF toLowerCase(piece) = "p" /\ m.to[1] - m.from[1] \in {2, -2}
  THEN <<(m.from[1] + m.to[1]) \div 2, m.from[2]>> ELSE NoSquare

\* A move counter that counts the moves of both sides.
updateFullmoveAlways(S) == Increment(S.fullmove)

\* The fullmove update of doMove: counted after Black's move.
updateFullmove(S) ==
  IF S.activeColor = "b" THEN Increment(S.fullmove) ELSE S.fullmove

doMove(S, m) ==
  LET fr == m.from[1]
      fc == m.from[2]
      tr == m.to[1]
      tc == m.to[2]
      piece == At(S, fr, fc)
      isWhite == piece = toUpperCase(piece)
      b1 == SetSq(S.board, fr, fc, "")
      b2 == captureEnPassant(b1, m)
      b3 == IF Truthy(m.flags.castle)
            THEN castleBoard(b2, tr, tc, piece, m.flags.castle)
            ELSE IF Truthy(m.promotion)
                 THEN SetSq(b2, tr, tc,
                            IF isWhite THEN toUpperCase(m.promotion)
                            ELSE toLowerCase(m.promotion))
                 ELSE SetSq(b2, tr, tc, piece)
  IN  [board |-> b3,
       activeColor |-> oppositeColor(S.activeColor),
       castling |-> updateCastling(S, m, piece),
       enPassant |-> updateEnPassant(S, m, piece),
       halfmove |-> updateHalfmove(S, m, piece),
       fullmove |-> updateFullmove(S)]

\* === Hash key ===

\* One board row in FEN placement form: pieces, runs of empties as a digit.
RECURSIVE RowKey(_, _, _)
RowKey(row, c, empty) ==
  IF c > 7 THEN (IF empty > 0 THEN <<DigitChar(empty)>> ELSE <<>>)
  ELSE IF ~Truthy(row[c]) THEN RowKey(row, c + 1, empty + 1)
  ELSE (IF empty > 0 THEN <<DigitChar(empty)>> ELSE <<>>)
       \o <<row[c]>> \o RowKey(row, c + 1, 0)

\* The first four fields of the key: the placement, the side to move, the
\* castling rights and the en-passant target.
KeyFields(S) ==
  LET rows ==
        Concat([r \in 0 .. 7 |->
                  RowKey(S.board[r], 0, 0)
                  \o (IF r < 7 THEN <<"/">> ELSE <<>>)], 0, 7)
      cast == (IF S.castling.wK THEN <<"K">> ELSE <<>>)
              \o (IF S.castling.wQ THEN <<"Q">> ELSE <<>>)
              \o (IF S.castling.bK THEN <<"k">> ELSE <<>>)
              \o (IF S.castling.bQ THEN <<"q">> ELSE <<>>)
      castStr == IF cast = <<>> THEN <<"-">> ELSE cast
      ep == IF S.enPassant # NoSquare
            THEN <<filesStr[S.enPassant[2] + 1], DigitChar(8 - S.enPassant[1])>>
            ELSE <<"-">>
  IN  rows \o <<" ">> \o <<S.activeColor>> \o <<" ">> \o castStr
      \o <<" ">> \o ep

\* A key that also carries the halfmove clock, as a full FEN would.
positionKeyWithClock(S) ==
  KeyFields(S) \o <<" ">> \o <<DigitChar(S.halfmove % 10)>>

positionKey(S) == KeyFields(S)

\* === FEN ===

\* text.split(sep): the pieces between separators, empty pieces included.
RECURSIVE Split(_, _)
Split(t, sep) ==
  IF \A i \in 1 .. Len(t) : t[i] # sep THEN <<t>>
  ELSE LET i == CHOOSE x \in 1 .. Len(t) :
                  t[x] = sep /\ \A y \in 1 .. x - 1 : t[y] # sep
       IN  <<SubSeq(t, 1, i - 1)>> \o Split(SubSeq(t, i + 1, Len(t)), sep)

\* text.trim().split(/\s+/): the maximal runs of non-blank characters; a
\* blank or empty text gives one empty field.
Fields(t) ==
  LET parts == SelectSeq(Split(t, " "), LAMBDA x : x # <<>>)
  IN  IF parts = <<>> THEN <<<<>>>> ELSE parts

DigitValue(ch) == (CHOOSE i \in 1 .. 10 : Digits[i] = ch) - 1
IsDigit(ch) == \E i \in 1 .. 10 : Digits[i] = ch
\* A digit test that 0 and 9 pass too.
IsDigit09(ch) == ch \in {"0", "1", "2", "3", "4", "5", "6", "7", "8", "9"}

IsDigit18(ch) == IsDigit(ch) /\ DigitValue(ch) >= 1 /\ DigitValue(ch) <= 8

EmptyRow == [c \in Rows |-> ""]

\* One rank of the placement field: the row, or the error thrown.
RECURSIVE ParseRank(_, _, _, _)
ParseRank(rankStr, i, fileIndex, row) ==
  IF i > Len(rankStr)
  THEN IF fileIndex # 8 THEN [error |-> "rank does not fill 8 files", row |-> row]
       ELSE [error |-> "", row |-> row]
  ELSE LET ch == rankStr[i]
       IN  IF IsDigit18(ch)
           THEN ParseRank(rankStr, i + 1, fileIndex + DigitValue(ch), row)
           ELSE IF ch \in PieceChars
           THEN IF fileIndex >= 8
                THEN [error |-> "too many squares on rank", row |-> row]
                ELSE ParseRank(rankStr, i + 1, fileIndex + 1,
                               [row EXCEPT ![fileIndex] = ch])
           ELSE [error |-> "unexpected character", row |-> row]

\* parseInt(text, 10) of an unsigned decimal text.
RECURSIVE DecimalValue(_, _)
DecimalValue(t, acc) ==
  IF t = <<>> THEN acc
  ELSE DecimalValue(Tail(t), 10 * acc + DigitValue(Head(t)))

AllIn(t, chars) == \A i \in 1 .. Len(t) : t[i] \in chars

DecDigits == {Digits[i] : i \in 1 .. 10}
HexDigits == DecDigits \cup {"a", "b", "c", "d", "e", "f", "A", "B", "C", "D", "E", "F"}

StripSign(t) == IF t # <<>> /\ Head(t) \in {"-", "+"} THEN Tail(t) ELSE t

\* The index of the first character of t that is in chars, or Len(t) + 1.
FirstOf(t, chars) ==
  LET at == {i \in 1 .. Len(t) : t[i] \in chars}
  IN  IF at = {} THEN Len(t) + 1 ELSE CHOOSE i \in at : \A j \in at : i <= j

\* A decimal mantissa: digits, digits with a fraction, or a fraction alone.
IsMantissa(t) ==
  LET dot == FirstOf(t, {"."})
      whole == SubSeq(t, 1, dot - 1)
      frac == SubSeq(t, dot + 1, Len(t))
  IN  /\ AllIn(whole, DecDigits)
      /\ AllIn(frac, DecDigits)
      /\ whole \o frac # <<>>

\* An unsigned decimal literal: a mantissa and an optional exponent.
IsDecimalLiteral(t) ==
  LET e == FirstOf(t, {"e", "E"})
      exponent == StripSign(SubSeq(t, e + 1, Len(t)))
  IN  /\ IsMantissa(SubSeq(t, 1, e - 1))
      /\ e <= Len(t) => exponent # <<>> /\ AllIn(exponent, DecDigits)

\* A hexadecimal, binary or octal literal, which takes no sign.
IsRadixLiteral(t) ==
  /\ Len(t) >= 3
  /\ t[1] = "0"
  /\ LET rest == SubSeq(t, 3, Len(t))
     IN  \/ t[2] \in {"x", "X"} /\ AllIn(rest, HexDigits)
         \/ t[2] \in {"b", "B"} /\ AllIn(rest, {"0", "1"})
         \/ t[2] \in {"o", "O"} /\ AllIn(rest, DecDigits \ {"8", "9"})

\* Number(text) is not NaN, for a text without blanks: a signed decimal
\* literal, a signed Infinity, or a radix literal.
IsNumeric(t) ==
  \/ IsRadixLiteral(t)
  \/ StripSign(t) = <<"I", "n", "f", "i", "n", "i", "t", "y">>
  \/ IsDecimalLiteral(StripSign(t))

\* parseInt(text, 10): the value of the digits that follow the optional
\* sign, NaN when there is none.
parseInt10(t) ==
  LET body == StripSign(t)
      stop == FirstOf(body, {body[i] : i \in {j \in 1 .. Len(body) : ~IsDigit(body[j])}})
      digits == SubSeq(body, 1, stop - 1)
  IN  IF digits = <<>> THEN NaN
      ELSE IF Head(t) = "-" THEN 0 - DecimalValue(digits, 0)
      ELSE DecimalValue(digits, 0)

\* The halfmove or fullmove field: the fallback when Number() gives NaN.
ParseClock(t, fallback) ==
  IF ~IsNumeric(t) THEN fallback ELSE parseInt10(t)

Includes(t, ch) == \E i \in 1 .. Len(t) : t[i] = ch

\* The column of a file letter, counted from one.
FileIndexFromOne(ch) == CHOOSE i \in 1 .. 8 : filesStr[i] = ch

FileIndex(ch) == (CHOOSE i \in 1 .. 8 : filesStr[i] = ch) - 1

\* The parsed Position in field S, or the error thrown in field error.
parseFEN(fenString) ==
  LET fenParts == Fields(fenString)
      Fail(e) == [error |-> e, S |-> <<>>]
  IN  IF Len(fenParts) # 6 THEN Fail("must have 6 fields")
      ELSE
      LET ranks == Split(fenParts[1], "/")
          activeColor == IF Len(fenParts[2]) = 1 THEN fenParts[2][1] ELSE ""
          cast == fenParts[3]
          epField == fenParts[4]
      IN  IF Len(ranks) # 8 THEN Fail("must have 8 ranks")
          ELSE
          LET parsed == [r \in Rows |-> ParseRank(ranks[r + 1], 1, 0, EmptyRow)]
              bad == {r \in Rows : parsed[r].error # ""}
          IN  IF bad # {}
              THEN Fail(parsed[CHOOSE r \in bad : \A q \in bad : r <= q].error)
              ELSE IF activeColor \notin {"w", "b"}
              THEN Fail("active color must be 'w' or 'b'")
              ELSE IF epField # <<"-">>
                      /\ ~(/\ Len(epField) = 2
                           /\ \E i \in 1 .. 8 : filesStr[i] = epField[1]
                           /\ epField[2] \in {"3", "6"})
              THEN Fail("bad en-passant square")
              ELSE [error |-> "",
                    S |-> [board |-> [r \in Rows |-> parsed[r].row],
                           activeColor |-> activeColor,
                           castling |-> [wK |-> Includes(cast, "K"),
                                         wQ |-> Includes(cast, "Q"),
                                         bK |-> Includes(cast, "k"),
                                         bQ |-> Includes(cast, "q")],
                           enPassant |->
                             IF epField = <<"-">> THEN NoSquare
                             ELSE <<8 - DigitValue(epField[2]),
                                    FileIndex(epField[1])>>,
                           halfmove |-> ParseClock(fenParts[5], 0),
                           fullmove |-> ParseClock(fenParts[6], 1)]]

\* String(n) of a clock: decimal digits, a sign when negative, NaN.
RECURSIVE NumberText(_)
NumberText(n) ==
  IF n = NaN THEN <<"N", "a", "N">>
  ELSE IF n < 0 THEN <<"-">> \o NumberText(0 - n)
  ELSE IF n < 10 THEN <<DigitChar(n)>>
  ELSE NumberText(n \div 10) \o <<DigitChar(n % 10)>>

\* The six-field text of a position: the four fields of positionKey, then
\* the halfmove clock and the fullmove number.
serialize(S) ==
  positionKey(S) \o <<" ">> \o NumberText(S.halfmove) \o <<" ">> \o NumberText(S.fullmove)

\* ===== Legal moves =====

\* A clone that shares the position it was made from.
cloneStateShared(S) == [alias |-> TRUE, val |-> S]

\* deepClone(S): a new object holding a copy of S; alias says whether a write
\* to the result is a write to S itself.
cloneState(S) == [alias |-> FALSE, val |-> S]

\* generateLegalMoves without its king-safety filter.
LegalLoopUnfiltered(S, pseudo, lo, hi) ==
  [moves |-> SubSeq(pseudo, lo, hi), S |-> S]

\* The loop of generateLegalMoves over pseudo[lo .. hi], run in order (the
\* second half starts from the object as the first half left it); S is the
\* caller's object.
RECURSIVE LegalLoop(_, _, _, _)
LegalLoop(S, pseudo, lo, hi) ==
  IF lo > hi THEN [moves |-> <<>>, S |-> S]
  ELSE IF lo = hi
  THEN LET m == pseudo[lo]
           cl == cloneState(S)
           Filter(S2) ==
             LET mover == oppositeColor(S2.activeColor)
                 kingPos == findKing(S2, mover)
                 keep == /\ kingPos # NoSquare
                         /\ ~isSquareAttacked(S2, kingPos[1], kingPos[2],
                                              S2.activeColor)
             IN  [moves |-> IF keep THEN <<m>> ELSE <<>>,
                  S |-> IF cl.alias THEN S2 ELSE S]
       IN  Filter(doMove(cl.val, m))
  ELSE LET mid == (lo + hi) \div 2
           Join(left, right) ==
             [moves |-> left.moves \o right.moves, S |-> right.S]
           Rest(left) == Join(left, LegalLoop(left.S, pseudo, mid + 1, hi))
       IN  Rest(LegalLoop(S, pseudo, lo, mid))

generateLegalMoves(S) ==
  LET Loop(pseudo) == LegalLoop(S, pseudo, 1, Len(pseudo))
  IN  Loop(generatePseudoLegalMoves(S))

\* ===== Evaluation =====

\* Scores are held in units of 1/ScoreScale centipawn.
ScoreScale == 2
Infinity == 1000000000

\* A mate valued like a pawn.
MateScoreAsPawn == 10 * 10

MateScore == 100000

PIECE_VALUES(p) ==
  CASE p = "p" -> -100 [] p = "n" -> -320 [] p = "b" -> -330
    [] p = "r" -> -500 [] p = "q" -> -900 [] p = "k" -> 0
    [] p = "P" -> 100 [] p = "N" -> 320 [] p = "B" -> 330
    [] p = "R" -> 500 [] p = "Q" -> 900 [] p = "K" -> 0

\* A genome that weighs the positional term as much as the material.
getEqualGenome ==
  [materialWeight |-> ScoreScale, positionalWeight |-> ScoreScale]

\* materialWeight 1.0 and positionalWeight 0.5, in units of 1/ScoreScale.
getDefaultGenome ==
  [materialWeight |-> ScoreScale, positionalWeight |-> ScoreScale \div 2]

\* this.evalDetails before the first call of evaluate: the constructor does
\* not set it.
undefined ==
  [material |-> 0, positional |-> 0, total |-> 0, breakdown |-> "undefined"]

\* evaluate(S): the score, the details it stores in this.evalDetails, and S.
evaluate(S) ==
  LET Terminal(gl) ==
        LET S1 == gl.S
            legalMoves == gl.moves
            kingPos == findKing(S1, S1.activeColor)
            inCheck == isSquareAttacked(S1, kingPos[1], kingPos[2],
                                        oppositeColor(S1.activeColor))
            Piece(i) == At(S1, i \div 8, i % 8)
            material ==
              Sum([i \in 0 .. 63 |->
                     IF Truthy(Piece(i)) THEN PIECE_VALUES(Piece(i)) ELSE 0],
                  0, 63)
            Advance(i) ==
              LET r == i \div 8
                  baseRank == IF Piece(i) = "P" THEN 6 ELSE 1
                  advancement == IF r >= baseRank THEN r - baseRank
                                 ELSE baseRank - r
              IN  (IF Piece(i) = "P" THEN advancement ELSE 0 - advancement) * 5
            positional ==
              Sum([i \in 0 .. 63 |->
                     IF Truthy(Piece(i)) /\ toLowerCase(Piece(i)) = "p"
                     THEN Advance(i) ELSE 0], 0, 63)
            Out(total, mat, pos, text) ==
              [score |-> total, S |-> S1,
               details |-> [material |-> mat, positional |-> pos,
                            total |-> total, breakdown |-> text]]
            Scored(mat, pos) ==
              Out(mat * getDefaultGenome.materialWeight
                  + pos * getDefaultGenome.positionalWeight,
                  mat, pos, "Material, Positional, Total")
        IN  IF kingPos = NoSquare
            THEN Out(IF S1.activeColor = "w" THEN 0 - Infinity ELSE Infinity,
                     0, 0, "King missing")
            ELSE IF legalMoves = <<>> /\ inCheck
            THEN Out(IF S1.activeColor = "w" THEN 0 - MateScore * ScoreScale
                     ELSE MateScore * ScoreScale, 0, 0, "Checkmate")
            ELSE IF legalMoves = <<>> /\ ~inCheck
            THEN Out(0, 0, 0, "Stalemate")
            ELSE Scored(material, positional)
  IN  Terminal(generateLegalMoves(S))

\* ===== Search =====

Max(a, b) == IF a >= b THEN a ELSE b
Min(a, b) == IF a <= b THEN a ELSE b

\* A cutoff after the first move of every node.
cutoffAlways(alpha, beta) == TRUE

\* The cutoff test of minimax, after alpha or beta was updated.
cutoff(alpha, beta) == alpha >= beta

\* A root loop that maximizes below every root move.
rootMaximizingAlways(ns) == TRUE

\* The isMaximizing argument findBestMove passes to minimax for the position
\* ns after a root move.
rootMaximizing(ns) == ns.activeColor = "w"

\* The isMaximizing argument minimax passes on to the call on a child: false
\* in the maximizing branch, true in the other.
replyMaximizing(isMaximizing) == IF isMaximizing THEN FALSE ELSE TRUE

RECURSIVE minimax(_, _, _, _, _, _, _, _)
RECURSIVE MinimaxLoop(_, _, _, _, _, _, _, _)

\* The loop of minimax over moves[lo .. hi], run in order and stopped by a
\* cutoff (done).  acc holds the loop's variables: the node's position S,
\* alpha, beta, bestScore, bestSeq, and what the calls below added to
\* this.searchPositions, this.pruned and this.evalDetails.  sided is history:
\* whether every call so far at or below this node had isMaximizing true
\* exactly when White was to move in its position.
MinimaxLoop(acc, moves, lo, hi, depth, isMaximizing, originalSide, sequence) ==
  IF lo > hi \/ acc.done THEN acc
  ELSE IF lo = hi
  THEN LET mv == moves[lo]
           cl == cloneState(acc.S)
           next == doMove(cl.val, mv)
           Update(res) ==
             LET better == IF isMaximizing THEN res.score > acc.bestScore
                           ELSE res.score < acc.bestScore
                 alpha1 == IF isMaximizing THEN Max(acc.alpha, res.score)
                           ELSE acc.alpha
                 beta1 == IF isMaximizing THEN acc.beta
                          ELSE Min(acc.beta, res.score)
                 cut == cutoff(alpha1, beta1)
             IN  [S |-> IF cl.alias THEN res.S ELSE acc.S,
                  alpha |-> alpha1,
                  beta |-> beta1,
                  bestScore |-> IF better THEN res.score ELSE acc.bestScore,
                  bestSeq |-> IF better THEN res.sequence ELSE acc.bestSeq,
                  positions |-> acc.positions + res.positions,
                  pruned |-> acc.pruned + res.pruned + (IF cut THEN 1 ELSE 0),
                  details |-> res.details,
                  sided |-> acc.sided /\ res.sided,
                  done |-> cut]
       IN  Update(minimax(next, depth - 1, acc.alpha, acc.beta,
                          replyMaximizing(isMaximizing),
                          originalSide, Append(sequence, mv), acc.details))
  ELSE LET mid == (lo + hi) \div 2
       IN  MinimaxLoop(MinimaxLoop(acc, moves, lo, mid, depth, isMaximizing,
                                   originalSide, sequence),
                       moves, mid + 1, hi, depth, isMaximizing, originalSide,
                       sequence)

\* minimax(...): score and sequence as returned; S, the position object as
\* the call leaves it; positions and pruned, the increments of the two
\* counters; details, this.evalDetails afterwards; sided, the history of
\* the isMaximizing arguments of this call and the calls below it.
minimax(state, depth, alpha, beta, isMaximizing, originalSide, sequence, details) ==
  LET here == isMaximizing <=> state.activeColor = "w"
      Leaf(ev) ==
        [score |-> ev.score, sequence |-> sequence, S |-> ev.S,
         positions |-> 1, pruned |-> 0, details |-> ev.details,
         sided |-> here]
      Best(out) ==
        [score |-> out.bestScore, sequence |-> out.bestSeq, S |-> out.S,
         positions |-> out.positions, pruned |-> out.pruned,
         details |-> out.details, sided |-> out.sided]
      Node(gl) ==
        LET S1 == gl.S
            moves == gl.moves
            king == findKing(S1, S1.activeColor)
            NoMoves(sc) == [score |-> sc, sequence |-> sequence, S |-> S1,
                            positions |-> 1, pruned |-> 0, details |-> details,
                            sided |-> here]
        IN  IF Len(moves) = 0
            THEN IF king = NoSquare
                 THEN NoMoves(IF originalSide THEN 0 - Infinity ELSE Infinity)
                 ELSE IF isSquareAttacked(S1, king[1], king[2],
                                          oppositeColor(S1.activeColor))
                 THEN NoMoves(IF S1.activeColor = "w"
                              THEN 0 - MateScore * ScoreScale
                              ELSE MateScore * ScoreScale)
                 ELSE NoMoves(0)
            ELSE Best(MinimaxLoop(
                        [S |-> S1, alpha |-> alpha, beta |-> beta,
                         bestScore |-> IF isMaximizing THEN 0 - Infinity
                                       ELSE Infinity,
                         bestSeq |-> <<>>, positions |-> 1, pruned |-> 0,
                         details |-> details, sided |-> here, done |-> FALSE],
                        moves, 1, Len(moves), depth, isMaximizing,
                        originalSide, sequence))
  IN  IF depth = 0 THEN Leaf(evaluate(state))
      ELSE Node(generateLegalMoves(state))

NoMove == Move(0, 0, 0, 0, null, null, null, NoFlags)

\* A quick mate check that finds nothing.
MateScanNone(acc, legal, lo, hi) == acc

\* The quick mate check of findBestMove over legal[lo .. hi], stopped by the
\* first mating move.
RECURSIVE MateScan(_, _, _, _)
MateScan(acc, legal, lo, hi) ==
  IF lo > hi \/ acc.found THEN acc
  ELSE IF lo = hi
  THEN LET m == legal[lo]
           cl == cloneState(acc.S)
           Replies(gl) ==
             LET ns == gl.S
                 rootState == IF cl.alias THEN ns ELSE acc.S
                 king == findKing(ns, ns.activeColor)
                 mate == /\ Len(gl.moves) = 0
                         /\ king # NoSquare
                         /\ isSquareAttacked(ns, king[1], king[2],
                                             rootState.activeColor)
             IN  [S |-> rootState, found |-> mate,
                  move |-> IF mate THEN m ELSE acc.move]
       IN  Replies(generateLegalMoves(doMove(cl.val, m)))
  ELSE LET mid == (lo + hi) \div 2
       IN  MateScan(MateScan(acc, legal, lo, mid), legal, mid + 1, hi)

\* A root loop that searches the replies to the full depth.
replyDepthSame(depth) == depth

\* The depth the root loop of findBestMove passes to minimax.
replyDepth(depth) == depth - 1

\* The root loop of findBestMove over legal[lo .. hi], stopped by a throw.
RECURSIVE RootLoop(_, _, _, _, _)
RootLoop(acc, legal, lo, hi, depth) ==
  IF lo > hi \/ acc.threw THEN acc
  ELSE IF lo = hi
  THEN LET m == legal[lo]
           cl == cloneState(acc.S)
           ns == doMove(cl.val, m)
           Update(res) ==
             LET rootState == IF cl.alias THEN res.S ELSE acc.S
                 score == res.score
                 \* the log line reads this.evalDetails.breakdown
                 threw == res.details = undefined
                 better == IF rootState.activeColor = "w"
                           THEN score > acc.bestEval
                           ELSE score < acc.bestEval
             IN  [S |-> rootState,
                  bestMove |-> IF ~threw /\ better THEN m ELSE acc.bestMove,
                  bestEval |-> IF ~threw /\ better THEN score
                               ELSE acc.bestEval,
                  bestPV |-> IF ~threw /\ better THEN res.sequence
                             ELSE acc.bestPV,
                  positions |-> acc.positions + res.positions,
                  pruned |-> acc.pruned + res.pruned,
                  details |-> res.details,
                  threw |-> threw]
       IN  Update(minimax(ns, replyDepth(depth), 0 - Infinity, Infinity,
                          rootMaximizing(ns), TRUE, <<m>>, acc.details))
  ELSE LET mid == (lo + hi) \div 2
       IN  RootLoop(RootLoop(acc, legal, lo, mid, depth), legal, mid + 1, hi,
                    depth)

\* findBestMove(depth) up to the end of its two loops, on the live position
\* S with this.evalDetails = details: the legal moves, the quick mate check
\* and the root loop.
SearchRoot(S, depth, details) ==
  LET Found(legal, scan) ==
        [legal |-> legal, found |-> TRUE, threw |-> FALSE,
         move |-> scan.move, S |-> scan.S, positions |-> 0, pruned |-> 0,
         details |-> details]
      Searched(legal, root) ==
        [legal |-> legal, found |-> FALSE, threw |-> root.threw,
         move |-> root.bestMove, S |-> root.S,
         positions |-> root.positions, pruned |-> root.pruned,
         details |-> root.details]
      Root(gl, scan) ==
        IF scan.found THEN Found(gl.moves, scan)
        ELSE Searched(gl.moves,
                      RootLoop([S |-> scan.S, bestMove |-> NoMove,
                                bestEval |-> IF gl.S.activeColor = "w"
                                             THEN 0 - Infinity ELSE Infinity,
                                bestPV |-> <<>>, positions |-> 0,
                                pruned |-> 0, details |-> details,
                                threw |-> FALSE],
                               gl.moves, 1, Len(gl.moves), depth))
      Scan(gl) ==
        Root(gl, MateScan([S |-> gl.S, found |-> FALSE, move |-> NoMove],
                          gl.moves, 1, Len(gl.moves)))
  IN  Scan(generateLegalMoves(S))

\* The values Math.floor(Math.random() * legal.length) can take, as indices
\* from 1; 0 when there is no legal move.
RandomIndices(legal) == IF Len(legal) = 0 THEN {0} ELSE 1 .. Len(legal)

\* An end of findBestMove that always takes the random branch.
FinalSelectionRandom(sr, rnd) ==
  IF sr.found \/ sr.threw
  THEN [threw |-> sr.threw, move |-> sr.move, fallback |-> FALSE]
  ELSE IF rnd \in 1 .. Len(sr.legal)
  THEN [threw |-> FALSE, move |-> sr.legal[rnd], fallback |-> TRUE]
  ELSE [threw |-> TRUE, move |-> NoMove, fallback |-> TRUE]

\* The end of findBestMove, after the loops (sr): the best move, or a random
\* legal move when there is none.  threw: the call ended in a TypeError;
\* move: the move returned; fallback: the random branch was taken.
FinalSelection(sr, rnd) ==
  IF sr.found \/ sr.threw
  THEN [threw |-> sr.threw, move |-> sr.move, fallback |-> FALSE]
  ELSE IF sr.move # NoMove
  THEN [threw |-> FALSE, move |-> sr.move, fallback |-> FALSE]
  ELSE IF rnd \in 1 .. Len(sr.legal)
  THEN [threw |-> FALSE, move |-> sr.legal[rnd], fallback |-> TRUE]
  \* legal is empty: the log line formats an undefined move
  ELSE [threw |-> TRUE, move |-> NoMove, fallback |-> TRUE]

\* ===== Draw detection =====

FiftyMoveLimit == 100

\* isFiftyMoveDraw one move late.
isFiftyMoveDrawLate(S) == S.halfmove > FiftyMoveLimit

isFiftyMoveDraw(S) == S.halfmove # NaN /\ S.halfmove >= FiftyMoveLimit

\* The number of entries of a sequence equal to k.
CountEq(seq, k) == Cardinality({i \in 1 .. Len(seq) : seq[i] = k})

isThreefoldRepetition(S, history) == CountEq(history, positionKey(S)) >= 3

\* A parity test that every list of bishops passes.
allParityAlways(bishopSquares) == TRUE

\* bishopSquares.every((p) => p === bishopSquares[0])
allParity(bishopSquares) ==
  \A i \in 1 .. Len(bishopSquares) : bishopSquares[i] = bishopSquares[1]

\* The number of pieces of one kind, of either colour, on the board.
CountKind(S, t) ==
  Sum([k \in 0 .. 63 |->
         IF Truthy(S.board[k \div 8][k % 8])
            /\ toLowerCase(S.board[k \div 8][k % 8]) = t
         THEN 1 ELSE 0], 0, 63)

isInsufficientMaterial(S) ==
  LET pawns == CountKind(S, "p")
      rooks == CountKind(S, "r")
      queens == CountKind(S, "q")
      bishops == CountKind(S, "b")
      knights == CountKind(S, "n")
      bishopSquares ==
        Concat([k \in 0 .. 63 |->
                  IF Truthy(S.board[k \div 8][k % 8])
                     /\ toLowerCase(S.board[k \div 8][k % 8]) = "b"
                  THEN <<((k \div 8) + (k % 8)) % 2>> ELSE <<>>], 0, 63)
      minor == bishops + knights
  IN  IF pawns > 0 \/ rooks > 0 \/ queens > 0 THEN FALSE
      ELSE IF minor = 0 THEN TRUE
      ELSE IF minor = 1 THEN TRUE
      ELSE IF minor = 2 /\ knights = 2 THEN TRUE
      ELSE IF minor = 2 /\ bishops = 2 /\ allParity(bishopSquares) THEN TRUE
      ELSE FALSE

\* ===== Start positions =====

\* The standard start.
\*   rnbqkbnr/pppppppp/8/8/8/8/PPPPPPPP/RNBQKBNR w KQkq - 0 1
START_FEN ==
  <<"r", "n", "b", "q", "k", "b", "n", "r", "/", "p", "p", "p", "p", "p",
  "p", "p", "p", "/", "8", "/", "8", "/", "8", "/", "8", "/", "P", "P", "P",
  "P", "P", "P", "P", "P", "/", "R", "N", "B", "Q", "K", "B", "N", "R", " ",
  "w", " ", "K", "Q", "k", "q", " ", "-", " ", "0", " ", "1">>

\* Both sides may castle on both wings; each bishop bears on a corner rook.
\*   r3k2r/pb5p/8/8/8/8/PB5P/R3K2R w KQkq - 4 10
CastleFen ==
  <<"r", "3", "k", "2", "r", "/", "p", "b", "5", "p", "/", "8", "/", "8",
  "/", "8", "/", "8", "/", "P", "B", "5", "P", "/", "R", "3", "K", "2", "R",
  " ", "w", " ", "K", "Q", "k", "q", " ", "-", " ", "4", " ", "1", "0">>

\* A double push of the a- or c-pawn passes the black b-pawn.
\*   4k3/8/8/8/1p6/8/P1P5/4K3 w - - 0 30
EnPassantFen ==
  <<"4", "k", "3", "/", "8", "/", "8", "/", "8", "/", "1", "p", "6", "/",
  "8", "/", "P", "1", "P", "5", "/", "4", "K", "3", " ", "w", " ", "-", " ",
  "-", " ", "0", " ", "3", "0">>

\* Black has just played d7-d5; taking en passant would open the fifth rank
\* onto the white king.
\*   8/8/8/K2pP2r/8/8/8/4k3 w - d6 0 40
PinnedEnPassantFen ==
  <<"8", "/", "8", "/", "8", "/", "K", "2", "p", "P", "2", "r", "/", "8",
  "/", "8", "/", "8", "/", "4", "k", "3", " ", "w", " ", "-", " ", "d", "6",
  " ", "0", " ", "4", "0">>

\* Each side has a pawn one step from promotion, by a push or by taking a
\* rook.
\*   3r2k1/4P3/8/8/8/8/4p3/3R2K1 w - - 0 50
PromotionFen ==
  <<"3", "r", "2", "k", "1", "/", "4", "P", "3", "/", "8", "/", "8", "/",
  "8", "/", "8", "/", "4", "p", "3", "/", "3", "R", "2", "K", "1", " ", "w",
  " ", "-", " ", "-", " ", "0", " ", "5", "0">>

\* The halfmove clock stands at 98.
\*   4k3/8/8/8/8/8/4P3/4K2R w K - 98 60
FiftyFen ==
  <<"4", "k", "3", "/", "8", "/", "8", "/", "8", "/", "8", "/", "8", "/",
  "4", "P", "3", "/", "4", "K", "2", "R", " ", "w", " ", "K", " ", "-", " ",
  "9", "8", " ", "6", "0">>

\* Locked pawns leave each king a few squares on its back rank.
\*   k7/1p1p4/1P1P4/8/8/1p1p4/1P1P4/K7 w - - 0 40
BoxedFen ==
  <<"k", "7", "/", "1", "p", "1", "p", "4", "/", "1", "P", "1", "P", "4",
  "/", "8", "/", "8", "/", "1", "p", "1", "p", "4", "/", "1", "P", "1", "P",
  "4", "/", "K", "7", " ", "w", " ", "-", " ", "-", " ", "0", " ", "4",
  "0">>

\* The boxed position with a free h-pawn each.
\*   k7/1p1p4/1P1P4/7p/8/1p1p4/1P1P3P/K7 w - - 0 40
ShuffleFen ==
  <<"k", "7", "/", "1", "p", "1", "p", "4", "/", "1", "P", "1", "P", "4",
  "/", "7", "p", "/", "8", "/", "1", "p", "1", "p", "4", "/", "1", "P", "1",
  "P", "3", "P", "/", "K", "7", " ", "w", " ", "-", " ", "-", " ", "0", " ",
  "4", "0">>

\* White's first generated move, Kb5-a6, stalemates Black.
\*   k7/P7/8/1K6/8/8/8/8 w - - 0 60
StalemateFen ==
  <<"k", "7", "/", "P", "7", "/", "8", "/", "1", "K", "6", "/", "8", "/",
  "8", "/", "8", "/", "8", " ", "w", " ", "-", " ", "-", " ", "0", " ", "6",
  "0">>

\* c7-c8 promoting to queen or rook mates.
\*   k7/2P5/1K6/8/8/8/8/8 w - - 0 60
MateFen ==
  <<"k", "7", "/", "2", "P", "5", "/", "1", "K", "6", "/", "8", "/", "8",
  "/", "8", "/", "8", "/", "8", " ", "w", " ", "-", " ", "-", " ", "0", " ",
  "6", "0">>

\* King and pawn each, Black to move.
\*   k7/4p3/8/8/8/8/4P3/7K b - - 3 5
PawnsFen ==
  <<"k", "7", "/", "4", "p", "3", "/", "8", "/", "8", "/", "8", "/", "8",
  "/", "4", "P", "3", "/", "7", "K", " ", "b", " ", "-", " ", "-", " ", "3",
  " ", "5">>

\* White king and pawn; Black has no piece at all.
\*   8/8/8/8/8/8/P7/K7 w - - 0 1
NoBlackKingFen ==
  <<"8", "/", "8", "/", "8", "/", "8", "/", "8", "/", "8", "/", "P", "7", "/",
  "K", "7", " ", "w", " ", "-", " ", "-", " ", "0", " ", "1">>

\* Black promotes on c1 with mate.
\*   8/8/8/8/8/1k6/2p5/K7 b - - 0 60
BlackMatesFen ==
  <<"8", "/", "8", "/", "8", "/", "8", "/", "8", "/", "1", "k", "6", "/", "2",
  "p", "5", "/", "K", "7", " ", "b", " ", "-", " ", "-", " ", "0", " ", "6",
  "0">>

\* Black king against a rook; White has no king.
\*   4k3/8/8/8/8/8/8/R7 b - - 0 1
NoWhiteKingFen ==
  <<"4", "k", "3", "/", "8", "/", "8", "/", "8", "/", "8", "/", "8", "/", "8",
  "/", "R", "7", " ", "b", " ", "-", " ", "-", " ", "0", " ", "1">>

\* Bare kings in opposite corners.
\*   k7/8/8/8/8/8/8/7K w - - 0 1
CornerKingsFen ==
  <<"k", "7", "/", "8", "/", "8", "/", "8", "/", "8", "/", "8", "/", "8", "/",
  "7", "K", " ", "w", " ", "-", " ", "-", " ", "0", " ", "1">>

\* ===== The engine as a state machine =====

VARIABLES
  fen,              \* the text the engine was constructed from
  state,            \* this.state, the live Position
  moveHistory,      \* this.moveHistory
  positionHistory,  \* this.positionHistory
  lastMoveFrom,     \* this.lastMoveFrom
  lastMoveTo,       \* this.lastMoveTo
  searchPositions,  \* this.searchPositions
  searchDepth,      \* this.searchDepth
  pruned,           \* this.pruned
  evalDetails,      \* this.evalDetails
  result,           \* the last call and what it returned
  instances,        \* the further ChessEngine instances, by number
  page              \* the page's globals around mainEngine, by name

vars == <<fen, state, moveHistory, positionHistory, lastMoveFrom, lastMoveTo,
          searchPositions, searchDepth, pruned, evalDetails, result,
          instances, page>>

\* What a call returned: op names the call; threw, that it ended in an
\* exception; move, moves, score, the value by kind; fallback, that
\* findBestMove took its random branch.
Result(op, threw, move, moves, score, fallback) ==
  [op |-> op, threw |-> threw, move |-> move, moves |-> moves,
   score |-> score, fallback |-> fallback]

\* No further instance was constructed.
NoInstances == <<>>

\* The engine is used alone, with no page around it.
NoPage == <<>>

\* new ChessEngine(f), for a text f that parses, as the only instance.
Construct(f) ==
  /\ instances = NoInstances
  /\ page = NoPage
  /\ parseFEN(f).error = ""
  /\ fen = f
  /\ state = parseFEN(f).S
  /\ moveHistory = <<>>
  /\ positionHistory = <<positionKey(parseFEN(f).S)>>
  /\ lastMoveFrom = NoSquare
  /\ lastMoveTo = NoSquare
  /\ searchPositions = 0
  /\ searchDepth = 0
  /\ pruned = 0
  /\ evalDetails = undefined
  /\ result = Result("new", FALSE, NoMove, <<>>, 0, FALSE)

\* A commit that records the key of the position before the move.
makeMoveKeyBefore(m) ==
  /\ lastMoveFrom' = m.from
  /\ lastMoveTo' = m.to
  /\ state' = doMove(state, m)
  /\ moveHistory' = Append(moveHistory, m)
  /\ positionHistory' = Append(positionHistory, positionKey(state))
  /\ result' = Result("makeMove", FALSE, m, <<>>, 0, FALSE)
  /\ UNCHANGED <<page, instances, fen, searchPositions, searchDepth, pruned, evalDetails>>

\* A makeMove that rejects what generateLegalMoves does not hold: the
\* position and the histories are left alone.
makeMoveChecked(m) ==
  IF \E i \in 1 .. Len(generateLegalMoves(state).moves) : generateLegalMoves(state).moves[i] = m
  THEN /\ lastMoveFrom' = m.from
       /\ lastMoveTo' = m.to
       /\ state' = doMove(state, m)
       /\ moveHistory' = Append(moveHistory, m)
       /\ positionHistory' = Append(positionHistory, positionKey(doMove(state, m)))
       /\ result' = Result("makeMove", FALSE, m, <<>>, 0, FALSE)
       /\ UNCHANGED <<page, instances, fen, searchPositions, searchDepth, pruned, evalDetails>>
  ELSE /\ result' = Result("makeMove", TRUE, m, <<>>, 0, FALSE)
       /\ UNCHANGED <<page, instances, fen, state, moveHistory, positionHistory, lastMoveFrom, lastMoveTo, searchPositions, searchDepth, pruned, evalDetails>>

\* makeMove(m): the move is committed to the live position and both histories.
makeMove(m) ==
  LET mCopy == m
  IN  /\ lastMoveFrom' = mCopy.from
      /\ lastMoveTo' = mCopy.to
      /\ state' = doMove(state, mCopy)
      /\ moveHistory' = Append(moveHistory, mCopy)
      /\ positionHistory' = Append(positionHistory,
                                   positionKey(doMove(state, mCopy)))
      /\ result' = Result("makeMove", FALSE, mCopy, <<>>, 0, FALSE)
      /\ UNCHANGED <<page, instances, fen, searchPositions, searchDepth, pruned, evalDetails>>

\* --- Play: callers commit legal moves, from a set of start positions ---

MaxPly == 2

StartFens ==
  {START_FEN, CastleFen, EnPassantFen, PinnedEnPassantFen, PromotionFen,
   FiftyFen}

Init == \E f \in StartFens : Construct(f)

\* A caller commits one of the current legal moves.
MakeMove ==
  /\ Len(moveHistory) < MaxPly
  /\ \E legal \in {generateLegalMoves(state).moves} :
       \E i \in 1 .. Len(legal) : makeMove(legal[i])

Next == MakeMove

Spec == Init /\ [][Next]_vars

\* --- Repetition: the kings shuffle in the boxed positions ---

MaxRepPly == 8

RepFens == {BoxedFen, ShuffleFen}

RepInit == \E f \in RepFens : Construct(f)

\* A caller commits one of the current legal moves, in a longer game.
RepMakeMove ==
  /\ Len(moveHistory) < MaxRepPly
  /\ \E legal \in {generateLegalMoves(state).moves} :
       \E i \in 1 .. Len(legal) : makeMove(legal[i])

RepNext == RepMakeMove

RepSpec == RepInit /\ [][RepNext]_vars

\* --- Fifty moves: the kings shuffle, then the callers are free ---

MaxShufflePly == 100
MaxFreePly == 2

FiftyInit == \E f \in RepFens : Construct(f)

IsKingMove(m) == toLowerCase(m.piece) = "k"

\* A caller commits the first legal king move.
ShuffleMove ==
  /\ Len(moveHistory) < MaxShufflePly
  /\ \E legal \in {SelectSeq(generateLegalMoves(state).moves, IsKingMove)} :
       /\ Len(legal) > 0
       /\ makeMove(legal[1])

\* After the shuffle a caller commits any legal move.
FreeMove ==
  /\ Len(moveHistory) >= MaxShufflePly
  /\ Len(moveHistory) < MaxShufflePly + MaxFreePly
  /\ \E legal \in {generateLegalMoves(state).moves} :
       \E i \in 1 .. Len(legal) : makeMove(legal[i])

FiftyNext == ShuffleMove \/ FreeMove

FiftySpec == FiftyInit /\ [][FiftyNext]_vars

\* --- Search: queries and searches on small positions ---

MaxSearchPly == 1
MaxDepth == 2
SearchFens == {StalemateFen, MateFen, PawnsFen, NoBlackKingFen}

SearchInit == \E f \in SearchFens : Construct(f)

SearchMakeMove ==
  /\ Len(moveHistory) < MaxSearchPly
  /\ \E legal \in {generateLegalMoves(state).moves} :
       \E i \in 1 .. Len(legal) : makeMove(legal[i])

\* engine.generateLegalMoves(engine.state)
GenerateLegalMoves ==
  \E gl \in {generateLegalMoves(state)} :
    /\ state' = gl.S
    /\ result' = Result("generateLegalMoves", FALSE, NoMove, gl.moves, 0,
                        FALSE)
    /\ UNCHANGED <<page, instances, fen, moveHistory, positionHistory, lastMoveFrom,
                   lastMoveTo, searchPositions, searchDepth, pruned,
                   evalDetails>>

\* engine.evaluate(engine.state)
Evaluate ==
  \E ev \in {evaluate(state)} :
    /\ state' = ev.S
    /\ evalDetails' = ev.details
    /\ result' = Result("evaluate", FALSE, NoMove, <<>>, ev.score, FALSE)
    /\ UNCHANGED <<page, instances, fen, moveHistory, positionHistory, lastMoveFrom,
                   lastMoveTo, searchPositions, searchDepth, pruned>>

\* engine.findBestMove(depth); Math.random() may pick any legal move.
FindBestMove ==
  \E depth \in 1 .. MaxDepth :
    \E sr \in {SearchRoot(state, depth, evalDetails)} :
      \E rnd \in RandomIndices(sr.legal) :
        \E r \in {FinalSelection(sr, rnd)} :
          /\ state' = sr.S
          /\ searchPositions' = sr.positions
          /\ searchDepth' = depth
          /\ pruned' = sr.pruned
          /\ evalDetails' = sr.details
          /\ result' = Result("findBestMove", r.threw, r.move, <<>>, 0,
                              r.fallback)
          /\ UNCHANGED <<page, instances, fen, moveHistory, positionHistory, lastMoveFrom,
                         lastMoveTo>>

SearchNext ==
  \/ SearchMakeMove
  \/ GenerateLegalMoves
  \/ Evaluate
  \/ FindBestMove

SearchSpec == SearchInit /\ [][SearchNext]_vars

\* --- Loading: texts typed into the FEN box, and moves in between ---

MaxLoadPly == 1

\* The fields of a text that parses.
LoadBase ==
  <<<<"4", "k", "3", "/", "8", "/", "8", "/", "8", "/", "8", "/", "8", "/",
    "4", "P", "3", "/", "4", "K", "3">>,
    <<"w">>, <<"-">>, <<"-">>, <<"0">>, <<"1">>>>

\* Placements: the base, then 7 and 9 ranks, ranks of 7, 9 and 0 squares,
\* a piece and a pawn past the eighth file, the digits 9 and 0, and
\* characters that name no piece.
PlacementTexts ==
  {
  \* 4k3/8/8/8/8/8/4P3/4K3
    <<"4", "k", "3", "/", "8", "/", "8", "/", "8", "/", "8", "/", "8", "/",
    "4", "P", "3", "/", "4", "K", "3">>,
  \* 4k3/8/8/8/8/8/4K3
    <<"4", "k", "3", "/", "8", "/", "8", "/", "8", "/", "8", "/", "8", "/",
    "4", "K", "3">>,
  \* 4k3/8/8/8/8/8/8/4P3/4K3
    <<"4", "k", "3", "/", "8", "/", "8", "/", "8", "/", "8", "/", "8", "/",
    "8", "/", "4", "P", "3", "/", "4", "K", "3">>,
  \* 4k3/8/8/8/8/8/4P2/4K3
    <<"4", "k", "3", "/", "8", "/", "8", "/", "8", "/", "8", "/", "8", "/",
    "4", "P", "2", "/", "4", "K", "3">>,
  \* 4k3/8/8/8/8/8/4P4/4K3
    <<"4", "k", "3", "/", "8", "/", "8", "/", "8", "/", "8", "/", "8", "/",
    "4", "P", "4", "/", "4", "K", "3">>,
  \* 4k3/8/8/8//8/4P3/4K3
    <<"4", "k", "3", "/", "8", "/", "8", "/", "8", "/", "/", "8", "/", "4",
    "P", "3", "/", "4", "K", "3">>,
  \* 4k3/8/8/8/8/8/4P3/4K3P
    <<"4", "k", "3", "/", "8", "/", "8", "/", "8", "/", "8", "/", "8", "/",
    "4", "P", "3", "/", "4", "K", "3", "P">>,
  \* 4k3/8/8/8/8/8/8P/4K3
    <<"4", "k", "3", "/", "8", "/", "8", "/", "8", "/", "8", "/", "8", "/",
    "8", "P", "/", "4", "K", "3">>,
  \* 4k3/8/8/9/8/8/4P3/4K3
    <<"4", "k", "3", "/", "8", "/", "8", "/", "9", "/", "8", "/", "8", "/",
    "4", "P", "3", "/", "4", "K", "3">>,
  \* 4k3/8/8/8/8/8/4P30/4K3
    <<"4", "k", "3", "/", "8", "/", "8", "/", "8", "/", "8", "/", "8", "/",
    "4", "P", "3", "0", "/", "4", "K", "3">>,
  \* 4k3/8/8/8/8/8/4X3/4K3
    <<"4", "k", "3", "/", "8", "/", "8", "/", "8", "/", "8", "/", "8", "/",
    "4", "X", "3", "/", "4", "K", "3">>,
  \* 4k3/8/8/8/8/8/4P3/4K-2
    <<"4", "k", "3", "/", "8", "/", "8", "/", "8", "/", "8", "/", "8", "/",
    "4", "P", "3", "/", "4", "K", "-", "2">>
  }

ColourTexts ==
  {
  \* w
    <<"w">>,
  \* b
    <<"b">>,
  \* x
    <<"x">>,
  \* W
    <<"W">>,
  \* wb
    <<"w", "b">>,
  \* -
    <<"-">>
  }

CastlingTexts ==
  {
  \* -
    <<"-">>,
  \* Kq
    <<"K", "q">>,
  \* x
    <<"x">>
  }

EnPassantTexts ==
  {
  \* -
    <<"-">>,
  \* e3
    <<"e", "3">>,
  \* a6
    <<"a", "6">>,
  \* e4
    <<"e", "4">>,
  \* i3
    <<"i", "3">>,
  \* e
    <<"e">>,
  \* e36
    <<"e", "3", "6">>,
  \* E3
    <<"E", "3">>,
  \* 3e
    <<"3", "e">>,
  \* --
    <<"-", "-">>
  }

ClockTexts ==
  {
  \* 0
    <<"0">>,
  \* 7
    <<"7">>,
  \* 99
    <<"9", "9">>,
  \* -3
    <<"-", "3">>,
  \* +7
    <<"+", "7">>,
  \* abc
    <<"a", "b", "c">>,
  \* 12abc
    <<"1", "2", "a", "b", "c">>,
  \* -
    <<"-">>,
  \* 1e
    <<"1", "e">>,
  \* .
    <<".">>,
  \* 1.5
    <<"1", ".", "5">>,
  \* 1.
    <<"1", ".">>,
  \* 1e2
    <<"1", "e", "2">>,
  \* 0x10
    <<"0", "x", "1", "0">>,
  \* 0b11
    <<"0", "b", "1", "1">>,
  \* -0x10
    <<"-", "0", "x", "1", "0">>,
  \* Infinity
    <<"I", "n", "f", "i", "n", "i", "t", "y">>,
  \* -Infinity
    <<"-", "I", "n", "f", "i", "n", "i", "t", "y">>,
  \* .5
    <<".", "5">>,
  \* -.5e1
    <<"-", ".", "5", "e", "1">>
  }

FieldTexts ==
  <<PlacementTexts, ColourTexts, CastlingTexts, EnPassantTexts, ClockTexts,
    ClockTexts>>

\* fields.join(sep)
RECURSIVE Join(_, _)
Join(fields, sep) ==
  IF fields = <<>> THEN <<>>
  ELSE IF Len(fields) = 1 THEN fields[1]
  ELSE fields[1] \o sep \o Join(Tail(fields), sep)

\* The base with one field replaced, with both clocks replaced by one
\* text, and with a field dropped or added.
LoadFieldLists ==
  UNION {{[LoadBase EXCEPT ![k] = v] : v \in FieldTexts[k]} : k \in 1 .. 6}
    \cup {[LoadBase EXCEPT ![5] = v, ![6] = v] : v \in ClockTexts}
    \cup {SubSeq(LoadBase, 1, 5), Append(LoadBase, <<"1">>)}

\* The texts typed: the field lists joined by a blank, the base with blanks
\* around and doubled between its fields, the blank and the empty text.
LoadTexts ==
  {Join(f, <<" ">>) : f \in LoadFieldLists}
    \cup {<<" ">> \o Join(LoadBase, <<" ", " ">>) \o <<" ">>, <<" ">>, <<>>}

\* What loadFEN left in the error element: text is the text typed, error
\* the message shown, empty when the text was loaded.
Loaded(text, error) ==
  [op |-> "loadFEN", threw |-> FALSE, move |-> NoMove, moves |-> <<>>,
   score |-> 0, fallback |-> FALSE, text |-> text, error |-> error]

\* loadFEN() with the given text in the FEN box.
loadFEN(text) ==
  IF text = <<>>
  THEN /\ result' = Loaded(text, "Please enter a FEN string.")
       /\ UNCHANGED <<page, instances, fen, state, moveHistory, positionHistory, lastMoveFrom,
                      lastMoveTo, searchPositions, searchDepth, pruned,
                      evalDetails>>
  ELSE \E p \in {parseFEN(text)} :
         IF p.error # ""
         THEN /\ result' = Loaded(text, p.error)
              /\ UNCHANGED <<page, instances, fen, state, moveHistory, positionHistory,
                             lastMoveFrom, lastMoveTo, searchPositions,
                             searchDepth, pruned, evalDetails>>
         ELSE \E ev \in {evaluate(p.S)} :
                /\ fen' = text
                /\ state' = ev.S
                /\ moveHistory' = <<>>
                /\ positionHistory' = <<positionKey(p.S)>>
                /\ lastMoveFrom' = NoSquare
                /\ lastMoveTo' = NoSquare
                /\ evalDetails' = ev.details
                /\ result' = Loaded(text, "")
                \* the selection is cleared; a load ends what checkEnd
                \* declared
                /\ page' = IF page = NoPage THEN page
                           ELSE [page EXCEPT !.selected = NoSquare,
                                             !.legalTargets = <<>>,
                                             !.declared = FALSE]
                /\ UNCHANGED <<instances, searchPositions, searchDepth, pruned>>

LoadInit == Construct(Join(LoadBase, <<" ">>))

LoadMakeMove ==
  /\ Len(moveHistory) < MaxLoadPly
  /\ \E legal \in {generateLegalMoves(state).moves} :
       \E i \in 1 .. Len(legal) : makeMove(legal[i])

\* A text is loaded after the construction or after a move.
LoadFEN ==
  /\ result.op # "loadFEN"
  /\ \E text \in LoadTexts : loadFEN(text)

LoadNext == LoadMakeMove \/ LoadFEN

LoadSpec == LoadInit /\ [][LoadNext]_vars

\* --- Material: the insufficient-material detector on small material ---

\* Bare kings.
\*   4k3/8/8/8/8/8/8/4K3 w - - 0 1
KingsFen ==
  <<"4", "k", "3", "/", "8", "/", "8", "/", "8", "/", "8", "/", "8", "/", "8",
  "/", "4", "K", "3", " ", "w", " ", "-", " ", "-", " ", "0", " ", "1">>

\* King and bishop against king.
\*   4k3/8/8/8/8/8/8/2B1K3 w - - 0 1
BishopFen ==
  <<"4", "k", "3", "/", "8", "/", "8", "/", "8", "/", "8", "/", "8", "/", "8",
  "/", "2", "B", "1", "K", "3", " ", "w", " ", "-", " ", "-", " ", "0", " ",
  "1">>

\* King and knight against king.
\*   4k3/8/8/8/8/8/8/1N2K3 w - - 0 1
KnightFen ==
  <<"4", "k", "3", "/", "8", "/", "8", "/", "8", "/", "8", "/", "8", "/", "8",
  "/", "1", "N", "2", "K", "3", " ", "w", " ", "-", " ", "-", " ", "0", " ",
  "1">>

\* King and two knights against king.
\*   4k3/8/8/8/8/8/8/1N2K1N1 w - - 0 1
TwoKnightsFen ==
  <<"4", "k", "3", "/", "8", "/", "8", "/", "8", "/", "8", "/", "8", "/", "8",
  "/", "1", "N", "2", "K", "1", "N", "1", " ", "w", " ", "-", " ", "-", " ",
  "0", " ", "1">>

\* King and pawn against king; the pawn is one step from promotion.
\*   4k3/P7/8/8/8/8/8/4K3 w - - 0 1
PawnFen ==
  <<"4", "k", "3", "/", "P", "7", "/", "8", "/", "8", "/", "8", "/", "8", "/",
  "8", "/", "4", "K", "3", " ", "w", " ", "-", " ", "-", " ", "0", " ", "1">>

\* A bishop each, c1 on a dark and c8 on a light square.
\*   2b1k3/8/8/8/8/8/8/2B1K3 w - - 0 1
OppositeBishopsFen ==
  <<"2", "b", "1", "k", "3", "/", "8", "/", "8", "/", "8", "/", "8", "/", "8",
  "/", "8", "/", "2", "B", "1", "K", "3", " ", "w", " ", "-", " ", "-", " ",
  "0", " ", "1">>

\* A bishop each, c1 and f8 both on dark squares.
\*   4kb2/8/8/8/8/8/8/2B1K3 w - - 0 1
SameBishopsFen ==
  <<"4", "k", "b", "2", "/", "8", "/", "8", "/", "8", "/", "8", "/", "8", "/",
  "8", "/", "2", "B", "1", "K", "3", " ", "w", " ", "-", " ", "-", " ", "0",
  " ", "1">>

\* King, bishop and knight against king.
\*   4k3/8/8/8/8/8/8/1NB1K3 w - - 0 1
BishopKnightFen ==
  <<"4", "k", "3", "/", "8", "/", "8", "/", "8", "/", "8", "/", "8", "/", "8",
  "/", "1", "N", "B", "1", "K", "3", " ", "w", " ", "-", " ", "-", " ", "0",
  " ", "1">>

\* Two knights against a bishop that the king may capture.
\*   4k3/8/8/8/8/8/3b4/1N2K1N1 w - - 0 1
ThreeMinorsFen ==
  <<"4", "k", "3", "/", "8", "/", "8", "/", "8", "/", "8", "/", "8", "/", "3",
  "b", "4", "/", "1", "N", "2", "K", "1", "N", "1", " ", "w", " ", "-", " ",
  "-", " ", "0", " ", "1">>

MaxMaterialPly == 2
MaterialFens ==
  {KingsFen, BishopFen, KnightFen, TwoKnightsFen, PawnFen, OppositeBishopsFen,
   SameBishopsFen, BishopKnightFen, ThreeMinorsFen}

\* What isInsufficientMaterial returned.
Verdict(value) ==
  [op |-> "isInsufficientMaterial", threw |-> FALSE, move |-> NoMove,
   moves |-> <<>>, score |-> 0, fallback |-> FALSE, value |-> value]

MaterialInit == \E f \in MaterialFens : Construct(f)

MaterialMakeMove ==
  /\ Len(moveHistory) < MaxMaterialPly
  /\ \E legal \in {generateLegalMoves(state).moves} :
       \E i \in 1 .. Len(legal) : makeMove(legal[i])

\* engine.isInsufficientMaterial()
IsInsufficientMaterial ==
  /\ result' = Verdict(isInsufficientMaterial(state))
  /\ UNCHANGED <<page, instances, fen, state, moveHistory, positionHistory, lastMoveFrom,
                 lastMoveTo, searchPositions, searchDepth, pruned,
                 evalDetails>>

MaterialNext == MaterialMakeMove \/ IsInsufficientMaterial

MaterialSpec == MaterialInit /\ [][MaterialNext]_vars

\* --- Evaluation: the static evaluation on every kind of position ---

MaxEvalPly == 1
EvalFens ==
  StartFens \cup SearchFens \cup MaterialFens
    \cup {BlackMatesFen, NoWhiteKingFen}

EvalInit == \E f \in EvalFens : Construct(f)

EvalMakeMove ==
  /\ Len(moveHistory) < MaxEvalPly
  /\ \E legal \in {generateLegalMoves(state).moves} :
       \E i \in 1 .. Len(legal) : makeMove(legal[i])

EvalNext == EvalMakeMove \/ Evaluate

EvalSpec == EvalInit /\ [][EvalNext]_vars

\* --- Several instances: calls on each, in any order ---

MaxCalls == 2
InstanceFens == <<CornerKingsFen, PawnsFen>>

\* new ChessEngine(f) as a value: the fields of the instance, and log, the
\* calls made on it so far.
newEngine(f) ==
  [fen |-> f, state |-> parseFEN(f).S, moveHistory |-> <<>>,
   positionHistory |-> <<positionKey(parseFEN(f).S)>>,
   lastMoveFrom |-> NoSquare, lastMoveTo |-> NoSquare, searchPositions |-> 0,
   searchDepth |-> 0, pruned |-> 0, evalDetails |-> undefined,
   result |-> Result("new", FALSE, NoMove, <<>>, 0, FALSE), log |-> <<>>]

\* e.makeMove(m): the fields of the instance e after the call.
callMakeMove(e, m) ==
  [e EXCEPT !.lastMoveFrom = m.from, !.lastMoveTo = m.to,
            !.state = doMove(e.state, m),
            !.moveHistory = Append(e.moveHistory, m),
            !.positionHistory =
              Append(e.positionHistory, positionKey(doMove(e.state, m))),
            !.result = Result("makeMove", FALSE, m, <<>>, 0, FALSE)]

\* e.generateLegalMoves(e.state)
callGenerateLegalMoves(e) ==
  LET Out(gl) ==
        [e EXCEPT !.state = gl.S,
                  !.result = Result("generateLegalMoves", FALSE, NoMove,
                                    gl.moves, 0, FALSE)]
  IN  Out(generateLegalMoves(e.state))

\* e.evaluate(e.state)
callEvaluate(e) ==
  LET Out(ev) ==
        [e EXCEPT !.state = ev.S, !.evalDetails = ev.details,
                  !.result = Result("evaluate", FALSE, NoMove, <<>>,
                                    ev.score, FALSE)]
  IN  Out(evaluate(e.state))

\* e.findBestMove(depth), with Math.random() giving the index rnd.
callFindBestMove(e, depth, rnd) ==
  LET Out(sr) ==
        LET r == FinalSelection(sr, rnd)
        IN  [e EXCEPT !.state = sr.S, !.searchPositions = sr.positions,
                      !.searchDepth = depth, !.pruned = sr.pruned,
                      !.evalDetails = sr.details,
                      !.result = Result("findBestMove", r.threw, r.move,
                                        <<>>, 0, r.fallback)]
  IN  Out(SearchRoot(e.state, depth, e.evalDetails))

\* A call: the method, and the move, or the depth and what Math.random()
\* gave.
Call(op, move, depth, rnd) ==
  [op |-> op, move |-> move, depth |-> depth, rnd |-> rnd]

\* The fields of the instance e after the call c on it.
call(e, c) ==
  LET Logged(after) == [after EXCEPT !.log = Append(e.log, c)]
  IN  CASE c.op = "makeMove" -> Logged(callMakeMove(e, c.move))
        [] c.op = "generateLegalMoves" -> Logged(callGenerateLegalMoves(e))
        [] c.op = "evaluate" -> Logged(callEvaluate(e))
        [] c.op = "findBestMove" ->
             Logged(callFindBestMove(e, c.depth, c.rnd))

\* Instances that are one object: what a call leaves is seen by all.
sharedFields(all, i, e) == [j \in DOMAIN all |-> e]

\* The instances after a call on instance i left it with the fields e: the
\* methods read and write the fields of this only.
ownFields(all, i, e) == [all EXCEPT ![i] = e]

\* The main engine is built on the standard start, the further instances
\* on the corner kings and on the kings and pawns.
InstancesInit ==
  /\ parseFEN(START_FEN).error = ""
  /\ fen = START_FEN
  /\ state = parseFEN(START_FEN).S
  /\ moveHistory = <<>>
  /\ positionHistory = <<positionKey(parseFEN(START_FEN).S)>>
  /\ lastMoveFrom = NoSquare
  /\ lastMoveTo = NoSquare
  /\ searchPositions = 0
  /\ searchDepth = 0
  /\ pruned = 0
  /\ evalDetails = undefined
  /\ result = Result("new", FALSE, NoMove, <<>>, 0, FALSE)
  /\ instances = [i \in 1 .. Len(InstanceFens) |-> newEngine(InstanceFens[i])]
  /\ page = NoPage

OwnVars ==
  <<fen, state, moveHistory, positionHistory, lastMoveFrom, lastMoveTo,
    searchPositions, searchDepth, pruned, evalDetails, result>>

\* The number of calls made so far, on all instances together.
CallsMade ==
  Sum([i \in DOMAIN instances |-> Len(instances[i].log)], 1,
      Len(instances))

\* The call c is made on instance i.
Called(i, c) ==
  /\ instances' = ownFields(instances, i, call(instances[i], c))
  /\ UNCHANGED OwnVars
  /\ UNCHANGED page

InstanceMakeMove ==
  /\ CallsMade < MaxCalls
  /\ \E i \in DOMAIN instances :
       \E legal \in {generateLegalMoves(instances[i].state).moves} :
         \E k \in 1 .. Len(legal) :
           Called(i, Call("makeMove", legal[k], 0, 0))

InstanceGenerateLegalMoves ==
  /\ CallsMade < MaxCalls
  /\ \E i \in DOMAIN instances :
       Called(i, Call("generateLegalMoves", NoMove, 0, 0))

InstanceEvaluate ==
  /\ CallsMade < MaxCalls
  /\ \E i \in DOMAIN instances : Called(i, Call("evaluate", NoMove, 0, 0))

\* Math.random() is called in the random branch only: rnd is 0 otherwise.
InstanceFindBestMove ==
  /\ CallsMade < MaxCalls
  /\ \E i \in DOMAIN instances :
       \E depth \in 1 .. MaxDepth :
         \E sr \in {SearchRoot(instances[i].state, depth,
                               instances[i].evalDetails)} :
           \E rnd \in IF FinalSelection(sr, 0).fallback
                      THEN RandomIndices(sr.legal) ELSE {0} :
             Called(i, Call("findBestMove", NoMove, depth, rnd))

InstancesNext ==
  \/ InstanceMakeMove
  \/ InstanceGenerateLegalMoves
  \/ InstanceEvaluate
  \/ InstanceFindBestMove

InstancesSpec == InstancesInit /\ [][InstancesNext]_vars

\* --- The knights' opening: from the standard start, the callers commit
\* --- knight moves only, in a longer game ---

MaxKnightPly == 5

KnightInit == Construct(START_FEN)

KnightMakeMove ==
  /\ Len(moveHistory) < MaxKnightPly
  /\ \E legal \in {generateLegalMoves(state).moves} :
       \E i \in 1 .. Len(legal) :
         /\ toLowerCase(At(state, legal[i].from[1], legal[i].from[2])) = "n"
         /\ makeMove(legal[i])

KnightNext == KnightMakeMove

KnightSpec == KnightInit /\ [][KnightNext]_vars

\* --- The queen's raid: from the standard start, White commits moves of
\* --- the e-pawn and the queen, Black moves of the f- and g-pawns and the
\* --- king; the black king comes under attack ---

MaxRaidPly == 6

RaidInit == Construct(START_FEN)

\* The callers' repertoire: the piece on the source square of m may move.
RaidMover(S, m) ==
  LET piece == At(S, m.from[1], m.from[2])
  IN  \/ piece = "Q"
      \/ piece = "P" /\ m.from[2] = 4
      \/ piece = "p" /\ m.from[2] \in {5, 6}
      \/ piece = "k"

RaidMakeMove ==
  /\ Len(moveHistory) < MaxRaidPly
  /\ \E legal \in {generateLegalMoves(state).moves} :
       \E i \in 1 .. Len(legal) :
         /\ RaidMover(state, legal[i])
         /\ makeMove(legal[i])

RaidNext == RaidMakeMove

RaidSpec == RaidInit /\ [][RaidNext]_vars

\* --- Deeper searches of small positions: the callers commit moves and
\* --- search to depth 3, where minimax cuts off ---

MaxPrunePly == 1
MaxPruneDepth == 3
PruneFens == {PawnsFen, CornerKingsFen}

PruneInit == \E f \in PruneFens : Construct(f)

PruneMakeMove ==
  /\ Len(moveHistory) < MaxPrunePly
  /\ \E legal \in {generateLegalMoves(state).moves} :
       \E i \in 1 .. Len(legal) : makeMove(legal[i])

\* engine.findBestMove(depth), to the deeper bound, as the first call on
\* the position.
PruneFindBestMove ==
  /\ result.op \in {"new", "makeMove"}
  /\ \E depth \in 1 .. MaxPruneDepth :
    \E sr \in {SearchRoot(state, depth, evalDetails)} :
      \E rnd \in RandomIndices(sr.legal) :
        \E r \in {FinalSelection(sr, rnd)} :
          /\ state' = sr.S
          /\ searchPositions' = sr.positions
          /\ searchDepth' = depth
          /\ pruned' = sr.pruned
          /\ evalDetails' = sr.details
          /\ result' = Result("findBestMove", r.threw, r.move, <<>>, 0,
                              r.fallback)
          /\ UNCHANGED <<page, instances, fen, moveHistory, positionHistory,
                         lastMoveFrom, lastMoveTo>>

PruneNext ==
  \/ PruneMakeMove
  \/ GenerateLegalMoves
  \/ Evaluate
  \/ PruneFindBestMove

PruneSpec == PruneInit /\ [][PruneNext]_vars

\* --- The runner: from the standard start White commits moves of the
\* --- h-pawn only, which runs to the last rank, Black moves of the a- and
\* --- g-pawns; from the promotion position the callers are free ---

MaxRunnerPly == 9

RunnerInit == \E f \in {START_FEN, PromotionFen} : Construct(f)

\* The callers' repertoire from the standard start.
RunnerMover(S, m) ==
  LET piece == At(S, m.from[1], m.from[2])
  IN  \/ piece = "P" /\ (m.from[1] < 6 \/ m.from[2] = 7)
      \/ piece = "p" /\ m.from[2] \in {0, 6}

RunnerMakeMove ==
  /\ Len(moveHistory) < (IF fen = START_FEN THEN MaxRunnerPly ELSE MaxPly)
  /\ \E legal \in {generateLegalMoves(state).moves} :
       \E i \in 1 .. Len(legal) :
         /\ fen = START_FEN => RunnerMover(state, legal[i])
         /\ makeMove(legal[i])

RunnerNext == RunnerMakeMove

RunnerSpec == RunnerInit /\ [][RunnerNext]_vars

\* --- Unchecked commits: the callers hand makeMove any move object between
\* --- a few squares of the standard start, legal or not ---

MaxUncheckedPly == 2

\* e2, e4, f3, g1 and e8.
UncheckedSquares == {<<6, 4>>, <<4, 4>>, <<5, 5>>, <<7, 6>>, <<0, 4>>}

UncheckedInit == Construct(START_FEN)

\* A move object as a caller may build it: the squares, the piece on the
\* source square, what stands on the destination, and a promotion or none.
UncheckedMakeMove ==
  /\ Len(moveHistory) < MaxUncheckedPly
  /\ \E from \in UncheckedSquares, to \in UncheckedSquares :
       \E promo \in {null, "q"} :
         makeMove(Move(from[1], from[2], to[1], to[2],
                       At(state, from[1], from[2]),
                       IF Truthy(At(state, to[1], to[2]))
                       THEN At(state, to[1], to[2]) ELSE null,
                       promo, NoFlags))

UncheckedNext == UncheckedMakeMove

UncheckedSpec == UncheckedInit /\ [][UncheckedNext]_vars

\* --- The king's wing: from the standard start White commits the moves
\* --- that lead to castling short, rook and king steps, and a bishop's raid
\* --- on h8; Black pushes the a-pawn and moves the g8 knight and h8 rook ---

MaxWingPly == 8

\* The callers' repertoire, as pairs of source and destination square:
\* Nf3, g3, Bg2, O-O, Kf1, Rg1, Rh1, b3, Bb2, Bxg7, Bxh8 for White;
\* a6, a5, a4, a3, Nf6, Rg8, Rh8 for Black.
WingLines ==
  {<<7, 6, 5, 5>>, <<6, 6, 5, 6>>, <<7, 5, 6, 6>>, <<7, 4, 7, 6>>,
   <<7, 4, 7, 5>>, <<7, 7, 7, 6>>, <<7, 6, 7, 7>>, <<6, 1, 5, 1>>,
   <<7, 2, 6, 1>>, <<6, 1, 1, 6>>, <<1, 6, 0, 7>>,
   <<1, 0, 2, 0>>, <<2, 0, 3, 0>>, <<3, 0, 4, 0>>, <<4, 0, 5, 0>>,
   <<0, 6, 2, 5>>, <<0, 7, 0, 6>>, <<0, 6, 0, 7>>}

WingInit == Construct(START_FEN)

WingMakeMove ==
  /\ Len(moveHistory) < MaxWingPly
  /\ \E legal \in {generateLegalMoves(state).moves} :
       \E i \in 1 .. Len(legal) :
         /\ <<legal[i].from[1], legal[i].from[2], legal[i].to[1],
              legal[i].to[2]>> \in WingLines
         /\ makeMove(legal[i])

WingNext == WingMakeMove

WingSpec == WingInit /\ [][WingNext]_vars

\* ===== The page around mainEngine =====

\* checkEnd(): TRUE when it declares the game over (no legal move: king
\* missing, checkmate or stalemate; threefold repetition; fifty moves;
\* insufficient material) and sets gameStarted to false.
checkEnd(S, history) ==
  LET Over(legal) ==
        IF Len(legal) = 0 THEN TRUE
        ELSE IF isThreefoldRepetition(S, history) THEN TRUE
        ELSE IF isFiftyMoveDraw(S) THEN TRUE
        ELSE isInsufficientMaterial(S)
  IN  Over(generateLegalMoves(S).moves)

\* legalTargets.find(t => t.to[0] === r && t.to[1] === c): the first target
\* on the square, NoMove for undefined.
findTarget(legalTargets, r, c) ==
  LET hits == {i \in 1 .. Len(legalTargets) : legalTargets[i].to = <<r, c>>}
  IN  IF hits = {} THEN NoMove
      ELSE legalTargets[CHOOSE i \in hits : \A j \in hits : i <= j]

\* generateLegalMoves(state).filter(m => m.from[0] === r && m.from[1] === c)
targetsFrom(S, r, c) ==
  SelectSeq(generateLegalMoves(S).moves, LAMBDA m : m.from = <<r, c>>)

\* mainEngine.makeMove(m) as the page's handlers call it, followed by
\* updateEvalBar() where the handler calls it (bar): the bar's evaluate
\* leaves its details on the engine.
pageMakeMove(m, bar) ==
  \E ev \in {IF bar THEN evaluate(doMove(state, m))
             ELSE [S |-> doMove(state, m), details |-> evalDetails]} :
    /\ lastMoveFrom' = m.from
    /\ lastMoveTo' = m.to
    /\ state' = ev.S
    /\ moveHistory' = Append(moveHistory, m)
    /\ positionHistory' = Append(positionHistory,
                                 positionKey(doMove(state, m)))
    /\ evalDetails' = ev.details
    /\ result' = Result("makeMove", FALSE, m, <<>>, 0, FALSE)
    /\ UNCHANGED <<instances, fen, searchPositions, searchDepth, pruned>>

\* The engine's fields a page handler leaves alone when it commits nothing.
EngineVars ==
  <<instances, fen, state, moveHistory, positionHistory, lastMoveFrom,
    lastMoveTo, searchPositions, searchDepth, pruned, evalDetails, result>>

\* --- A multiplayer game: square clicks, the promotion overlay, the
\* --- server's responses and the opponent's moves, in any order ---

MaxMultiPly == 2
MaxRequests == 2

\* The positions the server starts a game from (gameState.fen).
MultiFens == {PromotionFen}

\* The squares clicked and the squares the opponent moves between:
\* e7, e8, d1, d2, g8 and h8.
MultiSquares ==
  {<<1, 4>>, <<0, 4>>, <<7, 3>>, <<6, 3>>, <<0, 6>>, <<0, 7>>}

\* The page before a game: chessMultiplayer is constructed, no game runs.
MultiLobby ==
  [gameStarted |-> FALSE,          \* the global gameStarted
   multiplayerStarted |-> FALSE,   \* chessMultiplayer.gameStarted
   ourColor |-> null,              \* chessMultiplayer.ourColor
   currentTurn |-> null,           \* the side to move of currentGame.fen
   selected |-> NoSquare,          \* mainEngine.selected
   legalTargets |-> <<>>,          \* mainEngine.legalTargets
   overlay |-> NoMove,             \* the move the promotion overlay holds
   requests |-> <<>>,              \* the /api/chess-move requests awaited
   server |-> parseFEN(START_FEN).S]   \* the game as the server holds it

MultiInit ==
  /\ instances = NoInstances
  /\ page = MultiLobby
  /\ fen = START_FEN
  /\ state = parseFEN(START_FEN).S
  /\ moveHistory = <<>>
  /\ positionHistory = <<positionKey(parseFEN(START_FEN).S)>>
  /\ lastMoveFrom = NoSquare
  /\ lastMoveTo = NoSquare
  /\ searchPositions = 0
  /\ searchDepth = 0
  /\ pruned = 0
  /\ evalDetails = undefined
  /\ result = Result("new", FALSE, NoMove, <<>>, 0, FALSE)

\* The letter of chessMultiplayer.ourColor.
OurLetter == IF page.ourColor = "white" THEN "w" ELSE "b"

\* chessMultiplayer.isOurTurn(): read from currentGame.fen.
isOurTurn == page.currentTurn = OurLetter

\* A sequence without its i-th entry.
Without(seq, i) == SubSeq(seq, 1, i - 1) \o SubSeq(seq, i + 1, Len(seq))

\* handleGameStarted, setupMultiplayerGame: the event carries the game's
\* position and our colour; the engine is reset to that position.
HandleGameStarted ==
  /\ ~page.multiplayerStarted
  /\ \E f \in MultiFens, color \in {"white", "black"} :
       /\ state' = parseFEN(f).S
       /\ moveHistory' = <<>>
       /\ positionHistory' = <<positionKey(parseFEN(f).S)>>
       /\ page' = [page EXCEPT !.gameStarted = TRUE,
                               !.multiplayerStarted = TRUE,
                               !.ourColor = color,
                               !.currentTurn = parseFEN(f).S.activeColor,
                               !.selected = NoSquare,
                               !.legalTargets = <<>>,
                               !.server = parseFEN(f).S]
       /\ UNCHANGED <<instances, fen, lastMoveFrom, lastMoveTo,
                      searchPositions, searchDepth, pruned, evalDetails,
                      result>>

\* The page after a click selected, or failed to select, the piece p on
\* (r, c): only our own pieces are selected.
selectOwn(r, c, p, keep) ==
  IF Truthy(p)
  THEN IF pieceColor(p) = OurLetter
       THEN [page EXCEPT !.selected = <<r, c>>,
                         !.legalTargets = targetsFrom(state, r, c)]
       ELSE IF keep THEN page
       ELSE [page EXCEPT !.selected = NoSquare, !.legalTargets = <<>>]
  ELSE IF keep THEN page
  ELSE [page EXCEPT !.selected = NoSquare, !.legalTargets = <<>>]

\* chessMultiplayer.makeMove(move) up to its fetch: TRUE when the request is
\* sent, FALSE when the call returns false before sending.
sendsMove(move) ==
  /\ page.multiplayerStarted
  /\ state.activeColor = OurLetter
  /\ Truthy(At(state, move.from[1], move.from[2]))
  /\ pieceColor(At(state, move.from[1], move.from[2])) = OurLetter

\* handleMultiplayerSquareClick(r, c), reached through the canvas listener
\* and the handler installed by createMultiplayerSquareClickHandler.
MultiClick ==
  /\ page.gameStarted
  /\ page.multiplayerStarted
  /\ page.overlay = NoMove
  /\ isOurTurn
  /\ \E sq \in MultiSquares :
       \E match \in {findTarget(page.legalTargets, sq[1], sq[2])} :
         /\ page' =
              IF page.selected # NoSquare
              THEN IF match # NoMove
                   THEN IF ~Truthy(At(state, page.selected[1],
                                      page.selected[2]))
                           \/ pieceColor(At(state, page.selected[1],
                                            page.selected[2])) # OurLetter
                        THEN [page EXCEPT !.selected = NoSquare,
                                          !.legalTargets = <<>>]
                        ELSE IF Truthy(match.promotion)
                        THEN [page EXCEPT !.overlay = match]
                        ELSE IF sendsMove(match)
                                /\ Len(page.requests) < MaxRequests
                        THEN [page EXCEPT !.requests =
                                Append(@, [move |-> match,
                                           reply |-> "none",
                                           turn |-> null])]
                        ELSE page
                   ELSE selectOwn(sq[1], sq[2], At(state, sq[1], sq[2]),
                                  FALSE)
              ELSE selectOwn(sq[1], sq[2], At(state, sq[1], sq[2]), TRUE)
         /\ UNCHANGED EngineVars

\* A button of the promotion overlay is clicked: the move takes the chosen
\* piece and is committed to mainEngine; checkAndMakeBotMove() finds both
\* seats human; checkEnd() may end the game.
PromotionPick ==
  /\ page.overlay # NoMove
  /\ Len(moveHistory) < MaxMultiPly
  /\ \E kind \in {"q", "r", "b", "n"} :
       \E move \in {[page.overlay EXCEPT !.promotion = kind]} :
         /\ pageMakeMove(move, FALSE)
         /\ page' = [page EXCEPT
                       !.overlay = NoMove,
                       !.selected = NoSquare,
                       !.legalTargets = <<>>,
                       !.gameStarted =
                          IF checkEnd(doMove(state, move),
                                      Append(positionHistory,
                                             positionKey(doMove(state, move))))
                          THEN FALSE ELSE @]

\* The server takes up a request: it accepts a legal move of the side it
\* has to move, commits it and answers with its game; any request may fail
\* instead (rejected, network error, or aborted after ten seconds).
ServerReplies ==
  \E i \in 1 .. Len(page.requests) :
    /\ page.requests[i].reply = "none"
    /\ \/ \E legal \in {generateLegalMoves(page.server).moves} :
            /\ page.server.activeColor = OurLetter
            /\ \E k \in 1 .. Len(legal) : legal[k] = page.requests[i].move
            /\ page' = [page EXCEPT
                          !.server = doMove(@, page.requests[i].move),
                          !.requests[i].reply = "success",
                          !.requests[i].turn =
                             oppositeColor(page.server.activeColor)]
       \/ page' = [page EXCEPT !.requests[i].reply = "failure"]
    /\ UNCHANGED EngineVars

\* The promise of chessMultiplayer.makeMove settles with true: currentGame
\* is the server's, and the click handler's continuation commits the move.
MoveAccepted ==
  /\ Len(moveHistory) < MaxMultiPly
  /\ \E i \in 1 .. Len(page.requests) :
       /\ page.requests[i].reply = "success"
       /\ pageMakeMove(page.requests[i].move, TRUE)
       /\ page' = [page EXCEPT !.requests = Without(@, i),
                               !.currentTurn = page.requests[i].turn,
                               !.selected = NoSquare,
                               !.legalTargets = <<>>]

\* The promise settles with false: only the status line changes.
MoveFailed ==
  \E i \in 1 .. Len(page.requests) :
    /\ page.requests[i].reply = "failure"
    /\ page' = [page EXCEPT !.requests = Without(@, i)]
    /\ UNCHANGED EngineVars

\* The opponent's move, accepted by the server, arrives with a poll:
\* handleOpponentMove takes the server's game and commits the move.
HandleOpponentMove ==
  /\ page.multiplayerStarted
  /\ Len(moveHistory) < MaxMultiPly
  /\ page.server.activeColor # OurLetter
  /\ \E legal \in {generateLegalMoves(page.server).moves} :
       \E k \in 1 .. Len(legal) :
         /\ legal[k].from \in MultiSquares
         /\ legal[k].to \in MultiSquares
         /\ pageMakeMove(legal[k], TRUE)
         /\ page' = [page EXCEPT
                       !.server = doMove(@, legal[k]),
                       !.currentTurn =
                          oppositeColor(page.server.activeColor)]

MultiNext ==
  \/ HandleGameStarted
  \/ MultiClick
  \/ PromotionPick
  \/ ServerReplies
  \/ MoveAccepted
  \/ MoveFailed
  \/ HandleOpponentMove

MultiSpec == MultiInit /\ [][MultiNext]_vars

\* --- A tournament game: the main thread, its worker and the messages
\* --- between them, with Pause/Resume clicks and the re-request timer ---

MaxTourneyPly == 5
MaxChains == 2

\* The moves the worker's search picks from: which legal move
\* findBestMove(2) returns depends on the genome entered in the tournament
\* panel, so the choice is left open among these.
\*   f2-f3, g2-g4, e2-e4, e4-e5, e5xd6; e7-e5, Qd8-h4, a7-a6, d7-d5.
TourneyLines ==
  {<<6, 5, 5, 5>>, <<6, 6, 4, 6>>, <<6, 4, 4, 4>>, <<4, 4, 3, 4>>,
   <<3, 4, 2, 3>>,
   <<1, 4, 3, 4>>, <<0, 3, 4, 7>>, <<1, 0, 2, 0>>, <<1, 3, 3, 3>>}

\* One row of fenToBoard: a digit pushes that many nulls, any other
\* character itself.
RECURSIVE boardRow(_, _, _)
boardRow(rankStr, i, row) ==
  IF i > Len(rankStr) THEN row
  ELSE IF IsDigit18(rankStr[i])
  THEN boardRow(rankStr, i + 1,
                row \o [k \in 1 .. DigitValue(rankStr[i]) |-> null])
  ELSE boardRow(rankStr, i + 1, Append(row, rankStr[i]))

\* fenToBoard(fen), for a placement of eight rows of eight squares.
fenToBoard(fenString) ==
  LET rows == Split(Split(fenString, " ")[1], "/")
  IN  [r \in Rows |-> [c \in Rows |-> boardRow(rows[r + 1], 1, <<>>)[c + 1]]]

\* applyMoveToBoard(board, move): the piece goes from move.from to move.to,
\* and becomes the promotion piece in its own colour.
applyMoveToBoard(board, move) ==
  LET piece == board[move.from[1]][move.from[2]]
      moved == [[board EXCEPT ![move.to[1]][move.to[2]] = piece]
                  EXCEPT ![move.from[1]][move.from[2]] = null]
  IN  IF Truthy(move.promotion)
      THEN [moved EXCEPT ![move.to[1]][move.to[2]] =
              IF piece = toUpperCase(piece)
              THEN toUpperCase(move.promotion)
              ELSE toLowerCase(move.promotion)]
      ELSE moved

\* isGameOver(engine) of the worker.
isGameOver(S, history) ==
  LET Over(legal) ==
        IF Len(legal) = 0 THEN TRUE
        ELSE IF isThreefoldRepetition(S, history) THEN TRUE
        ELSE IF isFiftyMoveDraw(S) THEN TRUE
        ELSE isInsufficientMaterial(S)
  IN  Over(generateLegalMoves(S).moves)

\* No board is kept yet (game.state is undefined).
NoBoard == <<>>

\* tournamentGames[i] and its worker after initializeTournamentGames: the
\* init message is on its way to the worker, whose engine is this module's.
TourneyStart ==
  [paused |-> FALSE,        \* game.paused
   gameOver |-> FALSE,      \* game.gameOver
   ready |-> FALSE,         \* game.ready
   board |-> NoBoard,       \* game.state.board
   lastMove |-> NoMove,     \* game.lastMove
   inbox |-> <<"init">>,    \* messages posted to the worker, oldest first
   outbox |-> <<>>,         \* messages posted by the worker, oldest first
   timers |-> 0,            \* pending setTimeout(makeAIMoveInTournament)
   engine |-> FALSE]        \* self.engine is set

TourneyInit ==
  /\ instances = NoInstances
  /\ page = TourneyStart
  /\ fen = START_FEN
  /\ state = parseFEN(START_FEN).S
  /\ moveHistory = <<>>
  /\ positionHistory = <<positionKey(parseFEN(START_FEN).S)>>
  /\ lastMoveFrom = NoSquare
  /\ lastMoveTo = NoSquare
  /\ searchPositions = 0
  /\ searchDepth = 0
  /\ pruned = 0
  /\ evalDetails = undefined
  /\ result = Result("new", FALSE, NoMove, <<>>, 0, FALSE)

\* A makeAIMoveInTournament that posts its request to any game.
makeAIMoveAlways(g) == [g EXCEPT !.inbox = Append(@, "getMove")]

\* makeAIMoveInTournament(gameIndex) on the game g: the game with a getMove
\* request posted, or as it is when paused or over.
makeAIMoveInTournament(g) ==
  IF g.paused \/ g.gameOver THEN g
  ELSE [g EXCEPT !.inbox = Append(@, "getMove")]

\* The number of getMove requests posted and not yet answered.
Outstanding == Cardinality({i \in 1 .. Len(page.inbox) : page.inbox[i] = "getMove"})

\* The requests, answers and timers under way, each of which leads to the
\* next request.
Chains == Len(page.inbox) + Len(page.outbox) + page.timers

\* The worker takes the init message: the engine is constructed on START_FEN
\* and ready is posted.
WorkerInit ==
  /\ page.inbox # <<>>
  /\ Head(page.inbox) = "init"
  /\ page' = [page EXCEPT !.inbox = Tail(@), !.engine = TRUE,
                          !.outbox = Append(@, [type |-> "ready",
                                                 move |-> NoMove,
                                                 gameOver |-> FALSE])]
  /\ UNCHANGED EngineVars

\* The worker takes a getMove message in a finished game: it evaluates and
\* answers with move null and gameOver true.
WorkerGameOver ==
  /\ page.inbox # <<>>
  /\ Head(page.inbox) = "getMove"
  /\ page.engine
  /\ isGameOver(state, positionHistory)
  /\ \E ev \in {evaluate(state)} :
       /\ state' = ev.S
       /\ evalDetails' = ev.details
       /\ result' = Result("evaluate", FALSE, NoMove, <<>>, ev.score, FALSE)
  /\ page' = [page EXCEPT !.inbox = Tail(@),
                          !.outbox = Append(@, [type |-> "move",
                                                 move |-> NoMove,
                                                 gameOver |-> TRUE])]
  /\ UNCHANGED <<instances, fen, moveHistory, positionHistory, lastMoveFrom,
                 lastMoveTo, searchPositions, searchDepth, pruned>>

\* The worker takes a getMove message in a running game: it commits the move
\* its search returns, evaluates, and answers with the move.  The search's
\* counters are not followed here.
WorkerGetMove ==
  /\ page.inbox # <<>>
  /\ Head(page.inbox) = "getMove"
  /\ page.engine
  /\ Len(moveHistory) < MaxTourneyPly
  /\ ~isGameOver(state, positionHistory)
  /\ \E legal \in {generateLegalMoves(state).moves} :
       \E i \in 1 .. Len(legal) :
         /\ <<legal[i].from[1], legal[i].from[2], legal[i].to[1],
              legal[i].to[2]>> \in TourneyLines
         /\ pageMakeMove(legal[i], TRUE)
         /\ page' = [page EXCEPT !.inbox = Tail(@),
                                 !.outbox = Append(@, [type |-> "move",
                                                        move |-> legal[i],
                                                        gameOver |-> FALSE])]

\* worker.onmessage takes ready: the game is ready and the first request is
\* made.
HandleReady ==
  /\ page.outbox # <<>>
  /\ Head(page.outbox).type = "ready"
  /\ page' = makeAIMoveInTournament([page EXCEPT !.outbox = Tail(@),
                                                 !.ready = TRUE])
  /\ UNCHANGED EngineVars

\* handleWorkerMessage takes a move message: a finished game is marked
\* over; otherwise the move is applied to the board kept here and, unless
\* the game is paused, the next request is scheduled in 100 ms.
HandleMove ==
  /\ page.outbox # <<>>
  /\ Head(page.outbox).type = "move"
  /\ page' =
       IF Head(page.outbox).gameOver
       THEN [page EXCEPT !.outbox = Tail(@), !.gameOver = TRUE]
       ELSE [page EXCEPT
               !.outbox = Tail(@),
               !.board = applyMoveToBoard(IF page.board = NoBoard
                                          THEN fenToBoard(START_FEN)
                                          ELSE page.board,
                                          Head(page.outbox).move),
               !.lastMove = Head(page.outbox).move,
               !.timers = IF page.paused THEN @ ELSE @ + 1]
  /\ UNCHANGED EngineVars

\* The 100 ms timer fires.
TimerFires ==
  /\ page.timers > 0
  /\ page' = makeAIMoveInTournament([page EXCEPT !.timers = @ - 1])
  /\ UNCHANGED EngineVars

\* togglePauseTournament: a click on Pause/Resume.
TogglePause ==
  /\ page.paused => Chains < MaxChains
  /\ page' = IF page.paused
             THEN makeAIMoveInTournament([page EXCEPT !.paused = FALSE])
             ELSE [page EXCEPT !.paused = TRUE]
  /\ UNCHANGED EngineVars

TourneyNext ==
  \/ WorkerInit
  \/ WorkerGameOver
  \/ WorkerGetMove
  \/ HandleReady
  \/ HandleMove
  \/ TimerFires
  \/ TogglePause

TourneySpec == TourneyInit /\ [][TourneyNext]_vars

\* --- The single-engine game loop: Start, Load FEN, clicks, the promotion
\* --- overlay and the bot's timers ---

MaxSoloPly == 2

\* A white pawn that promotes by taking Black's last piece.
\*   1r5k/P7/8/8/8/8/8/7K w - - 0 1
LastPieceFen ==
  <<"1", "r", "5", "k", "/", "P", "7", "/", "8", "/", "8", "/", "8", "/", "8",
  "/", "8", "/", "7", "K", " ", "w", " ", "-", " ", "-", " ", "0", " ", "1">>

\* A white pawn that mates on the back rank by taking on b8.
\*   1r4k1/P4ppp/8/8/8/8/8/7K w - - 0 1
BackRankFen ==
  <<"1", "r", "4", "k", "1", "/", "P", "4", "p", "p", "p", "/", "8", "/", "8",
  "/", "8", "/", "8", "/", "8", "/", "7", "K", " ", "w", " ", "-", " ", "-",
  " ", "0", " ", "1">>

\* The texts loaded through the FEN box.
SoloFens == {LastPieceFen, BackRankFen}

\* The seats chosen before Start: White is played by hand.
SoloSeats == {<<"human", "human">>, <<"human", "bot">>}

\* The squares clicked: a7, a8, b8 and h1.
SoloSquares == {<<1, 0>>, <<0, 0>>, <<0, 1>>, <<7, 7>>}

\* The page as the script leaves it: no game started, White by hand and
\* Black by the bot.
SoloPage ==
  [gameStarted |-> FALSE,         \* the global gameStarted
   whitePlayerType |-> "human",
   blackPlayerType |-> "bot",
   selected |-> NoSquare,         \* mainEngine.selected
   legalTargets |-> <<>>,         \* mainEngine.legalTargets
   overlay |-> NoMove,            \* the move the promotion overlay holds
   timers |-> 0,                  \* pending setTimeout(makeAIMove, 50)
   thinking |-> 0,                \* pending inner timeouts of makeAIMove
   declared |-> FALSE]            \* checkEnd declared the game over since
                                  \* the last Start or load

SoloInit ==
  /\ instances = NoInstances
  /\ page = SoloPage
  /\ fen = START_FEN
  /\ state = parseFEN(START_FEN).S
  /\ moveHistory = <<>>
  /\ positionHistory = <<positionKey(parseFEN(START_FEN).S)>>
  /\ lastMoveFrom = NoSquare
  /\ lastMoveTo = NoSquare
  /\ searchPositions = 0
  /\ searchDepth = 0
  /\ pruned = 0
  /\ evalDetails = undefined
  /\ result = Result("new", FALSE, NoMove, <<>>, 0, FALSE)

\* The kind of player that has the move in S.
currentPlayerType(S) ==
  IF S.activeColor = "w" THEN page.whitePlayerType ELSE page.blackPlayerType

\* checkAndMakeBotMove() in the position S: the number of timers it adds.
checkAndMakeBotMove(S) == IF currentPlayerType(S) = "bot" THEN 1 ELSE 0

\* The page after checkEnd() ran in the position S.
afterCheckEnd(g, S, history) ==
  IF checkEnd(S, history)
  THEN [g EXCEPT !.gameStarted = FALSE, !.declared = TRUE]
  ELSE g

\* startGame(): the seats are read, the engine is reset to START_FEN and
\* the eval bar is updated.  Start is clicked while no game runs and no
\* timer is pending.
StartGame ==
  \E seats \in SoloSeats :
    \E ev \in {evaluate(parseFEN(START_FEN).S)} :
      /\ ~page.gameStarted
      /\ page.timers = 0
      /\ page.thinking = 0
      /\ state' = ev.S
      /\ moveHistory' = <<>>
      /\ positionHistory' = <<positionKey(parseFEN(START_FEN).S)>>
      /\ evalDetails' = ev.details
      /\ page' = [page EXCEPT !.whitePlayerType = seats[1],
                              !.blackPlayerType = seats[2],
                              !.selected = NoSquare,
                              !.legalTargets = <<>>,
                              !.gameStarted = TRUE,
                              !.declared = FALSE,
                              !.timers = IF seats[1] = "bot" THEN @ + 1
                                         ELSE @]
      /\ UNCHANGED <<instances, fen, lastMoveFrom, lastMoveTo,
                     searchPositions, searchDepth, pruned, result>>

\* loadFEN() with a text that parses in the FEN box: one position is
\* loaded, before the first move.
SoloLoadFEN ==
  /\ fen = START_FEN
  /\ moveHistory = <<>>
  /\ \E text \in SoloFens : loadFEN(text)

\* onSquareClick(r, c), reached through the canvas listener while a game is
\* started and no multiplayer game runs.
SoloClick ==
  /\ page.gameStarted
  /\ page.overlay = NoMove
  /\ currentPlayerType(state) = "human"
  /\ \E sq \in SoloSquares :
       \E match \in {findTarget(page.legalTargets, sq[1], sq[2])} :
         IF page.selected # NoSquare /\ match # NoMove
         THEN IF Truthy(match.promotion)
              THEN /\ page' = [page EXCEPT !.overlay = match]
                   /\ UNCHANGED EngineVars
              ELSE /\ Len(moveHistory) < MaxSoloPly
                   /\ pageMakeMove(match, TRUE)
                   /\ page' = [page EXCEPT
                                 !.selected = NoSquare,
                                 !.legalTargets = <<>>,
                                 !.timers = @ + checkAndMakeBotMove(
                                                  doMove(state, match))]
         ELSE /\ page' =
                   IF pieceColor(At(state, sq[1], sq[2])) = state.activeColor
                   THEN [page EXCEPT !.selected = sq,
                                     !.legalTargets =
                                        targetsFrom(state, sq[1], sq[2])]
                   ELSE IF page.selected # NoSquare
                   THEN [page EXCEPT !.selected = NoSquare,
                                     !.legalTargets = <<>>]
                   ELSE page
              /\ UNCHANGED EngineVars

\* A button of the promotion overlay is clicked: the move is committed, the
\* bot is scheduled if it has the move, and checkEnd() runs.
SoloPromotionPick ==
  /\ page.overlay # NoMove
  /\ Len(moveHistory) < MaxSoloPly
  /\ \E kind \in {"q", "r", "b", "n"} :
       \E move \in {[page.overlay EXCEPT !.promotion = kind]} :
         /\ pageMakeMove(move, FALSE)
         /\ page' = afterCheckEnd(
                      [page EXCEPT
                         !.overlay = NoMove,
                         !.selected = NoSquare,
                         !.legalTargets = <<>>,
                         !.timers = @ + checkAndMakeBotMove(
                                          doMove(state, move))],
                      doMove(state, move),
                      Append(positionHistory,
                             positionKey(doMove(state, move))))

\* makeAIMove(), 50 ms after it was scheduled: if the bot has the move, its
\* thinking is scheduled.
MakeAIMove ==
  /\ page.timers > 0
  /\ page' = [page EXCEPT !.timers = @ - 1,
                          !.thinking = IF currentPlayerType(state) = "bot"
                                       THEN @ + 1 ELSE @]
  /\ UNCHANGED EngineVars

\* The inner timeout of makeAIMove with no legal move: checkEnd() runs.
BotHasNoMove ==
  /\ page.thinking > 0
  /\ Len(generateLegalMoves(state).moves) = 0
  /\ page' = afterCheckEnd([page EXCEPT !.thinking = @ - 1], state,
                           positionHistory)
  /\ UNCHANGED EngineVars

\* The inner timeout of makeAIMove with a legal move: findBestMove(2), a
\* promotion made a queen, the commit, the eval bar, the next bot's timer
\* and checkEnd().
BotMoves ==
  /\ page.thinking > 0
  /\ Len(moveHistory) < MaxSoloPly
  /\ Len(generateLegalMoves(state).moves) > 0
  /\ \E sr \in {SearchRoot(state, 2, evalDetails)} :
       \E rnd \in IF FinalSelection(sr, 0).fallback
                  THEN RandomIndices(sr.legal) ELSE {0} :
         \E r \in {FinalSelection(sr, rnd)} :
           \E best \in {IF Truthy(r.move.promotion)
                        THEN [r.move EXCEPT !.promotion = "q"]
                        ELSE r.move} :
             \E ev \in {evaluate(doMove(sr.S, best))} :
               /\ ~r.threw
               /\ lastMoveFrom' = best.from
               /\ lastMoveTo' = best.to
               /\ state' = ev.S
               /\ moveHistory' = Append(moveHistory, best)
               /\ positionHistory' =
                    Append(positionHistory, positionKey(doMove(sr.S, best)))
               /\ searchPositions' = sr.positions
               /\ searchDepth' = 2
               /\ pruned' = sr.pruned
               /\ evalDetails' = ev.details
               /\ result' = Result("makeMove", FALSE, best, <<>>, 0, FALSE)
               /\ page' = afterCheckEnd(
                            [page EXCEPT
                               !.thinking = @ - 1,
                               !.timers = @ + checkAndMakeBotMove(
                                                doMove(sr.S, best))],
                            doMove(sr.S, best),
                            Append(positionHistory,
                                   positionKey(doMove(sr.S, best))))
               /\ UNCHANGED <<instances, fen>>

SoloNext ==
  \/ StartGame
  \/ SoloLoadFEN
  \/ SoloClick
  \/ SoloPromotionPick
  \/ MakeAIMove
  \/ BotHasNoMove
  \/ BotMoves

SoloSpec == SoloInit /\ [][SoloNext]_vars

\* ===== Properties of play =====

LegalMoves == generateLegalMoves(state).moves
PseudoMoves == generatePseudoLegalMoves(state)

\* The last committed move, and the position it was committed in (only
\* meaningful in an action formula, after a makeMove step).
Committed == result'.op = "makeMove"

IsPawnMove(S, m) == toLowerCase(At(S, m.from[1], m.from[2])) = "p"

\* A capture as the board shows it: the destination is occupied, or a pawn
\* changes file (en passant when the destination is empty).
IsCapture(S, m) ==
  \/ Truthy(At(S, m.to[1], m.to[2]))
  \/ IsPawnMove(S, m) /\ m.from[2] # m.to[2]

\* C1: no move returned by generateLegalMoves leaves the mover without a king
\* or with its king on a square the opponent attacks; castling, en-passant
\* and promotion moves included.
C1_LegalMovesKeepKingSafe ==
  LET legal == LegalMoves
  IN  \A i \in 1 .. Len(legal) :
        LET S2 == doMove(state, legal[i])
            king == findKing(S2, state.activeColor)
        IN  /\ king # NoSquare
            /\ ~isSquareAttacked(S2, king[1], king[2],
                                 oppositeColor(state.activeColor))

\* A position where the filter rejects a pseudo-legal move and a castling
\* move is legal.
C1_Witness ==
  /\ Len(moveHistory) > 0
  /\ LET legal == LegalMoves
     IN  /\ Len(PseudoMoves) > Len(legal)
         /\ \E i \in 1 .. Len(legal) : legal[i].flags.castle # ""

\* C3: makeMove appends exactly one entry to moveHistory (the move, which
\* it returns) and one to positionHistory (the key of the position after the
\* move) and leaves the earlier entries alone; the last entry of
\* positionHistory is always the key of the live position.
C3_HistoriesAppendOnly ==
  [][Committed =>
       /\ moveHistory' = Append(moveHistory, result'.move)
       /\ Len(positionHistory') = Len(positionHistory) + 1
       /\ SubSeq(positionHistory', 1, Len(positionHistory)) = positionHistory
       /\ positionHistory'[Len(positionHistory')] = positionKey(state')
       /\ Len(positionHistory') = Len(moveHistory') + 1]_vars

\* Two moves have been committed and both histories hold them.
C3_Witness ==
  /\ Len(moveHistory) = 2
  /\ Len(positionHistory) = 3
  /\ positionHistory[3] = positionKey(state)
  /\ positionHistory[2] # positionHistory[3]

\* C6: after a committed move the halfmove clock is 0 if a pawn moved or a
\* piece was captured (en passant included), else the clock before plus 1.
C6_HalfmoveClock ==
  [][Committed =>
       state'.halfmove =
         IF IsPawnMove(state, result'.move) \/ IsCapture(state, result'.move)
         THEN 0 ELSE state.halfmove + 1]_vars

\* A castling move has raised the clock from 4 to 5.
C6_Witness ==
  /\ result.op = "makeMove"
  /\ result.move.flags.castle # ""
  /\ state.halfmove = 5

\* The four castling rights, and for each its colour, its king's home
\* square and its rook's corner.
Rights == {"wK", "wQ", "bK", "bQ"}
Held(S, right) ==
  CASE right = "wK" -> S.castling.wK [] right = "wQ" -> S.castling.wQ
    [] right = "bK" -> S.castling.bK [] right = "bQ" -> S.castling.bQ
RightColor(right) == IF right \in {"wK", "wQ"} THEN "w" ELSE "b"
HomeRow(color) == IF color = "w" THEN 7 ELSE 0
RookCorner(right) ==
  <<HomeRow(RightColor(right)), IF right \in {"wK", "bK"} THEN 7 ELSE 0>>

\* C8: a king move (castling included) clears both rights of its colour, a
\* rook move from a corner or the capture of a rook on a corner clears that
\* corner's right, and a right that is false is never true again.
C8_CastlingRightsMonotone ==
  [][Committed =>
       LET m == result'.move
           mover == state.activeColor
           moved == At(state, m.from[1], m.from[2])
           taken == At(state, m.to[1], m.to[2])
       IN  \A right \in Rights :
             /\ Held(state', right) => Held(state, right)
             /\ toLowerCase(moved) = "k" /\ RightColor(right) = mover
                  => ~Held(state', right)
             /\ toLowerCase(moved) = "r" /\ m.from = RookCorner(right)
                  => ~Held(state', right)
             /\ toLowerCase(taken) = "r" /\ m.to = RookCorner(right)
                  => ~Held(state', right)]_vars

\* The black rook has been taken on h8: Black has lost the king-side right
\* and kept the queen-side one.
C8_Witness ==
  /\ result.op = "makeMove"
  /\ result.move.capture = "r"
  /\ result.move.to = <<0, 7>>
  /\ ~state.castling.bK
  /\ state.castling.bQ

\* The castling move of the side to move on the given wing.
CastleMove(S, wing) ==
  Move(HomeRow(S.activeColor), 4, HomeRow(S.activeColor),
       IF wing = "K" THEN 6 ELSE 2,
       IF S.activeColor = "w" THEN "K" ELSE "k", null, null,
       [NoFlags EXCEPT !.castle = wing])

\* The conditions of castling on a wing for the side to move: the right is
\* held, the squares between king and rook are empty, and the king's start,
\* transit and destination squares are not attacked.
MayCastle(S, wing) ==
  LET row == HomeRow(S.activeColor)
      enemy == oppositeColor(S.activeColor)
      between == IF wing = "K" THEN {5, 6} ELSE {1, 2, 3}
      path == IF wing = "K" THEN {4, 5, 6} ELSE {4, 3, 2}
  IN  /\ Held(S, S.activeColor \o wing)
      /\ \A c \in between : At(S, row, c) = ""
      /\ \A c \in path : ~isSquareAttacked(S, row, c, enemy)

\* C9: a castling move of the side to move is among the legal moves exactly
\* when the right is held, the squares between king and rook are empty and
\* none of the king's start, transit and destination squares is attacked.
C9_CastlingGenerated ==
  LET legal == LegalMoves
  IN  \A wing \in {"K", "Q"} :
        (\E i \in 1 .. Len(legal) : legal[i] = CastleMove(state, wing))
          <=> MayCastle(state, wing)

\* Black holds the king-side right and f8, g8 are empty, but f8 is attacked:
\* only queen-side castling is legal.
C9_Witness ==
  /\ state.activeColor = "b"
  /\ state.castling.bK
  /\ At(state, 0, 5) = "" /\ At(state, 0, 6) = ""
  /\ isSquareAttacked(state, 0, 5, "w")
  /\ MayCastle(state, "Q")
  /\ LET legal == LegalMoves
     IN  /\ \E i \in 1 .. Len(legal) : legal[i].flags.castle = "Q"
         /\ \A i \in 1 .. Len(legal) : legal[i].flags.castle # "K"

\* C10: king-side castling puts the king on the g-file and the rook on the
\* f-file of the home rank (queen-side: c and d), empties the king's and the
\* rook's squares, clears both rights of the castling side and leaves the
\* other side's rights as they were.
C10_CastlingApplied ==
  [][Committed /\ result'.move.flags.castle # "" =>
       LET wing == result'.move.flags.castle
           mover == state.activeColor
           row == HomeRow(mover)
           king == IF mover = "w" THEN "K" ELSE "k"
           rook == IF mover = "w" THEN "R" ELSE "r"
       IN  /\ At(state', row, IF wing = "K" THEN 6 ELSE 2) = king
           /\ At(state', row, IF wing = "K" THEN 5 ELSE 3) = rook
           /\ At(state', row, 4) = ""
           /\ At(state', row, IF wing = "K" THEN 7 ELSE 0) = ""
           /\ \A r \in Rows, c \in Rows :
                (r # row \/ c \notin (IF wing = "K" THEN {4, 5, 6, 7}
                                      ELSE {0, 2, 3, 4}))
                  => At(state', r, c) = At(state, r, c)
           /\ \A right \in Rights :
                Held(state', right) =
                  (RightColor(right) # mover /\ Held(state, right))]_vars

\* White has castled queen-side: king c1, rook d1, a1 and e1 empty, and
\* Black's rights are still held.
C10_Witness ==
  /\ result.op = "makeMove"
  /\ result.move.flags.castle = "Q"
  /\ At(state, 7, 2) = "K" /\ At(state, 7, 3) = "R"
  /\ At(state, 7, 0) = "" /\ At(state, 7, 4) = ""
  /\ ~state.castling.wK /\ ~state.castling.wQ
  /\ state.castling.bK /\ state.castling.bQ

\* ===== Properties of the draw detectors =====

\* The positions of the game so far: the start position and the position
\* after each committed move, replayed from the text the engine was built
\* from.
RECURSIVE Replay(_)
Replay(k) ==
  IF k = 0 THEN <<parseFEN(fen).S>>
  ELSE LET before == Replay(k - 1)
       IN  Append(before, doMove(before[k], moveHistory[k]))

\* What the rules compare: placement, side to move, castling rights and
\* en-passant target, without the clocks.
Canonical(S) == <<S.board, S.activeColor, S.castling, S.enPassant>>

\* C5: isThreefoldRepetition is true exactly when the current position
\* (placement, side to move, castling rights, en-passant target; clocks
\* excluded) has occurred at least 3 times in the game.
C5_ThreefoldExact ==
  LET game == Replay(Len(moveHistory))
      same == {i \in 1 .. Len(game) : Canonical(game[i]) = Canonical(state)}
  IN  /\ Len(game) \in same
      /\ game[Len(game)].halfmove = state.halfmove
      /\ isThreefoldRepetition(state, positionHistory)
           <=> Cardinality(same) >= 3

\* The start position has come back for the third time, eight moves on,
\* with a different halfmove clock each time.
C5_Witness ==
  /\ Len(moveHistory) = 8
  /\ isThreefoldRepetition(state, positionHistory)
  /\ positionHistory[1] = positionHistory[9]
  /\ state.halfmove = 8
  /\ parseFEN(fen).S.halfmove = 0

\* The index of the last committed pawn move or capture, 0 if none.
LastReset ==
  LET resets == {i \in 1 .. Len(moveHistory) :
                   \/ toLowerCase(moveHistory[i].piece) = "p"
                   \/ moveHistory[i].capture # null}
  IN  IF resets = {} THEN 0
      ELSE CHOOSE i \in resets : \A j \in resets : j <= i

\* The committed moves since the last pawn move or capture.
QuietRun == Len(moveHistory) - LastReset

\* The clock when the quiet run began.
RunBase == IF LastReset = 0 THEN parseFEN(fen).S.halfmove ELSE 0

\* C7: isFiftyMoveDraw is true exactly when the halfmove clock has reached
\* 100: from a clock of 0, after the 100th consecutive committed move that
\* is neither a pawn move nor a capture and not before; a pawn move or a
\* capture makes it false again.
C7_FiftyMoveExact ==
  /\ state.halfmove = RunBase + QuietRun
  /\ isFiftyMoveDraw(state) <=> RunBase + QuietRun >= 100

\* The 100th quiet move from a clock of 0 has just been committed.
C7_Witness ==
  /\ RunBase = 0
  /\ QuietRun = 100
  /\ isFiftyMoveDraw(state)

\* ===== Properties of the search =====

SameMove(a, b) ==
  /\ a.from = b.from
  /\ a.to = b.to
  /\ a.promotion = b.promotion
  /\ a.flags = b.flags

\* C2: in a position with at least one legal move, findBestMove(depth),
\* depth >= 1, completes without throwing and returns one of the legal
\* moves of the position.
C2_FindBestMoveNeverFails ==
  LET legal == LegalMoves
  IN  (result.op = "findBestMove" /\ Len(legal) >= 1)
        => /\ ~result.threw
           /\ \E i \in 1 .. Len(legal) : SameMove(legal[i], result.move)

Query == result'.op \in {"generateLegalMoves", "evaluate", "findBestMove"}

\* C4: generateLegalMoves, evaluate and findBestMove leave the live
\* position, moveHistory and positionHistory as they were: the moves they
\* try are made on copies, and a move made on a copy does not reach the
\* position it was copied from.
C4_QueriesLeaveGameUnchanged ==
  [][Query => /\ state' = state
              /\ moveHistory' = moveHistory
              /\ positionHistory' = positionHistory]_vars

\* A search has tried moves and looked at positions below the live one, and
\* returned.
C4_Witness ==
  /\ result.op = "findBestMove"
  /\ ~result.threw
  /\ searchDepth = 2
  /\ searchPositions > 1

\* ===== Properties of en passant =====

\* A pawn moves two rows.
IsDoublePush(S, m) ==
  IsPawnMove(S, m) /\ m.to[1] - m.from[1] \in {2, -2}

\* C11: after a two-square pawn push the en-passant target is the square
\* passed over; an en-passant capture puts the capturing pawn on the target
\* square, removes the enemy pawn on the capturing pawn's source rank in the
\* destination file, and removes nothing else.
C11_EnPassantSquares ==
  [][Committed =>
       LET m == result'.move
           pawn == At(state, m.from[1], m.from[2])
           enemyPawn == IF state.activeColor = "w" THEN "p" ELSE "P"
       IN  /\ IsDoublePush(state, m)
                => state'.enPassant = <<(m.from[1] + m.to[1]) \div 2, m.from[2]>>
           /\ m.flags.enpassant
                => /\ m.to = state.enPassant
                   /\ At(state, m.from[1], m.to[2]) = enemyPawn
                   /\ At(state, m.to[1], m.to[2]) = ""
                   /\ At(state', m.to[1], m.to[2]) = pawn
                   /\ At(state', m.from[1], m.to[2]) = ""
                   /\ At(state', m.from[1], m.from[2]) = ""
                   /\ \A r \in Rows, c \in Rows :
                        (<<r, c>> \notin {m.from, m.to, <<m.from[1], m.to[2]>>})
                          => At(state', r, c) = At(state, r, c)]_vars

\* Black's b4 pawn has taken en passant on a3 or c3 after White's double push:
\* it stands on rank 3 and rank 4 holds no pawn of either side.
C11_Witness ==
  /\ result.op = "makeMove"
  /\ result.move.flags.enpassant
  /\ result.move.from = <<4, 1>>
  /\ At(state, 5, result.move.to[2]) = "p"
  /\ \A c \in Rows : At(state, 4, c) = ""
  /\ IsDoublePush(parseFEN(fen).S, moveHistory[1])

\* Some move of the sequence is an en-passant capture.
HasEnPassant(moves) == \E i \in 1 .. Len(moves) : moves[i].flags.enpassant

\* C12: after a committed move the en-passant target is set exactly when the
\* move was a two-square pawn push; an en-passant capture is legal only
\* while the target is set, so only right after a double push.
C12_EnPassantOnlyAfterDoublePush ==
  /\ [][Committed =>
          (state'.enPassant # NoSquare <=> IsDoublePush(state, result'.move))]_vars
  /\ [](HasEnPassant(LegalMoves) => state.enPassant # NoSquare)

\* A double push set the target and the reply, not a double push, cleared
\* it: no en-passant capture is on offer any more.
C12_Witness ==
  /\ Len(moveHistory) = 2
  /\ IsDoublePush(parseFEN(fen).S, moveHistory[1])
  /\ ~moveHistory[2].flags.enpassant
  /\ state.enPassant = NoSquare
  /\ positionHistory[2][Len(positionHistory[2])] # "-"
  /\ ~HasEnPassant(LegalMoves)

\* ===== Move counts from the standard start =====

\* The number of legal replies to each move of the sequence, added up.
CountReplies(S, moves) ==
  Sum([i \in 1 .. Len(moves) |->
         Len(generateLegalMoves(doMove(S, moves[i])).moves)], 1, Len(moves))

\* C13: from the standard start generateLegalMoves returns exactly 20 moves,
\* and there are exactly 400 sequences of a legal white move and a legal
\* black reply.
C13_PerftTwoPlies ==
  (fen = START_FEN /\ moveHistory = <<>>)
    => /\ Len(LegalMoves) = 20
       /\ CountReplies(state, LegalMoves) = 400

\* A white move and a black reply have been committed from the standard
\* start, the reply a knight move.
C13_Witness ==
  /\ fen = START_FEN
  /\ Len(moveHistory) = 2
  /\ moveHistory[2].piece = "n"
  /\ state.fullmove = 2

\* ===== Properties of loading =====

\* The squares a rank text describes: a digit 1-8 that many, a piece one.
RankSquares(rank) ==
  Sum([i \in 1 .. Len(rank) |->
         IF rank[i] \in {"1", "2", "3", "4", "5", "6", "7", "8"}
         THEN DigitValue(rank[i])
         ELSE IF rank[i] \in PieceChars THEN 1 ELSE 0], 1, Len(rank))

\* The text breaks one of the format rules.
Malformed(text) ==
  LET f == Fields(text)
  IN  \/ Len(f) # 6
      \/ LET ranks == Split(f[1], "/")
         IN  \/ Len(ranks) # 8
             \/ \E i \in 1 .. Len(ranks) : RankSquares(ranks[i]) # 8
             \/ \E i \in 1 .. Len(f[1]) :
                  f[1][i] \notin {"/", "1", "2", "3", "4", "5", "6", "7", "8"}
                                   \cup PieceChars
      \/ f[2] \notin {<<"w">>, <<"b">>}
      \/ /\ f[4] # <<"-">>
         /\ f[4] \notin {<<file, rank>> :
                           file \in {"a", "b", "c", "d", "e", "f", "g", "h"},
                           rank \in {"3", "6"}}

\* C14: parseFEN throws, and returns no Position, for every text that has
\* not 6 fields, not 8 ranks, a rank that does not describe 8 squares, a
\* placement character that is no digit 1-8 and no piece, an active colour
\* other than w and b, or an en-passant field that is neither - nor a square
\* of rank 3 or 6; and a loadFEN that gets an error from parseFEN leaves the
\* live position and both histories as they were.
C14_MalformedFenRejected ==
  [][result'.op = "loadFEN" =>
       LET Checked(p) ==
             /\ Malformed(result'.text) =>
                  p.error # "" /\ p.S = <<>> /\ result'.error # ""
             /\ p.error # "" =>
                  UNCHANGED <<state, moveHistory, positionHistory>>
       IN  Checked(parseFEN(result'.text))]_vars

\* A text with a rank of seven squares was typed after a move: the move is
\* still the whole history.
C14_Witness ==
  /\ result.op = "loadFEN"
  /\ result.error = "rank does not fill 8 files"
  /\ Malformed(result.text)
  /\ Len(moveHistory) = 1
  /\ Len(positionHistory) = 2
  /\ state = doMove(parseFEN(fen).S, moveHistory[1])

\* C15: a text loads whatever its halfmove and fullmove fields are; a clock
\* field that is no number gives halfmove 0 and fullmove 1; and both parsed
\* clocks are integers for every text of the fields.
C15_ClockFieldsAlwaysInteger ==
  LET f == Fields(result.text)
      OtherFieldsFine == ~Malformed(Join([f EXCEPT ![5] = <<"0">>, ![6] = <<"1">>], <<" ">>))
  IN  (result.op = "loadFEN" /\ Len(f) = 6 /\ OtherFieldsFine)
        => /\ result.error = ""
           /\ ~IsNumeric(f[5]) => state.halfmove = 0
           /\ ~IsNumeric(f[6]) => state.fullmove = 1
           /\ state.halfmove # NaN
           /\ state.fullmove # NaN

\* C16: for every position reached in play, from the standard start as from
\* the other start positions, parsing the text serialised from it succeeds
\* and gives the same board, side to move, castling rights and en-passant
\* target.
C16_ParseSerializeRoundTrip ==
  LET Same(p) ==
        /\ p.error = ""
        /\ p.S.board = state.board
        /\ p.S.activeColor = state.activeColor
        /\ p.S.castling = state.castling
        /\ p.S.enPassant = state.enPassant
  IN  Same(parseFEN(serialize(state)))

\* From the standard start, 1. e4 e5: the text carries the target e6.
C16_Witness ==
  /\ fen = START_FEN
  /\ Len(moveHistory) = 2
  /\ state.enPassant = <<2, 4>>
  /\ Fields(serialize(state))[4] = <<"e", "6">>
  /\ parseFEN(serialize(state)).S.enPassant = <<2, 4>>

\* ===== Properties of the material detector =====

\* The squares that hold a piece of one of the kinds, of either colour.
SquaresOf(kinds) ==
  {sq \in Rows \X Rows :
     /\ Truthy(At(state, sq[1], sq[2]))
     /\ toLowerCase(At(state, sq[1], sq[2])) \in kinds}

\* All the squares are of one colour.
OneColour(squares) ==
  \A a \in squares : \A b \in squares : (a[1] + a[2] - b[1] - b[2]) % 2 = 0

\* C17: isInsufficientMaterial is true exactly when the board holds no pawn,
\* rook or queen and either at most one minor piece, or two minor pieces that
\* are both knights, or two minor pieces that are both bishops on squares of
\* one colour; so it is true for K-K, KB-K, KN-K and KNN-K, and false for
\* KP-K, for two bishops on opposite colours and for bishop plus knight.
C17_InsufficientMaterialExact ==
  result.op = "isInsufficientMaterial" =>
    LET minors == SquaresOf({"b", "n"})
        Asked(f) == fen = f /\ moveHistory = <<>>
    IN  /\ result.value <=>
             /\ SquaresOf({"p", "r", "q"}) = {}
             /\ \/ Cardinality(minors) <= 1
                \/ Cardinality(minors) = 2 /\ SquaresOf({"b"}) = {}
                \/ /\ Cardinality(minors) = 2
                   /\ SquaresOf({"n"}) = {}
                   /\ OneColour(minors)
        /\ (\E f \in {KingsFen, BishopFen, KnightFen, TwoKnightsFen} : Asked(f))
             => result.value
        /\ (\E f \in {PawnFen, OppositeBishopsFen, BishopKnightFen} : Asked(f))
             => ~result.value

\* The king has taken the bishop that stood against the two knights: what
\* was sufficient material is now insufficient.
C17_Witness ==
  /\ result.op = "isInsufficientMaterial"
  /\ result.value
  /\ fen = ThreeMinorsFen
  /\ Len(moveHistory) = 1
  /\ moveHistory[1].capture = "b"
  /\ ~isInsufficientMaterial(parseFEN(fen).S)
  /\ Cardinality(SquaresOf({"n"})) = 2

\* The move leaves the side then to move in check and without a legal move.
Mates(S, m) ==
  LET Mated(ns) ==
        /\ generateLegalMoves(ns).moves = <<>>
        /\ findKing(ns, ns.activeColor) # NoSquare
        /\ isSquareAttacked(ns, findKing(ns, ns.activeColor)[1],
                            findKing(ns, ns.activeColor)[2], S.activeColor)
  IN  Mated(doMove(S, m))

\* C18: when some legal move mates at once, findBestMove(depth), for every
\* depth from 1 on, returns a legal move that mates at once, and returns it
\* before any call of minimax: searchPositions is 0.
C18_MateInOneReturnedFirst ==
  result.op = "findBestMove" =>
    LET Found(legal) ==
          (\E i \in 1 .. Len(legal) : Mates(state, legal[i]))
            => /\ ~result.threw
               /\ ~result.fallback
               /\ \E i \in 1 .. Len(legal) : SameMove(legal[i], result.move)
               /\ Mates(state, result.move)
               /\ searchPositions = 0
    IN  Found(LegalMoves)

\* White promotes on c8 with mate, found at depth 2 without a search.
C18_Witness ==
  /\ result.op = "findBestMove"
  /\ fen = MateFen
  /\ moveHistory = <<>>
  /\ searchDepth = 2
  /\ searchPositions = 0
  /\ result.move.to = <<0, 2>>
  /\ Truthy(result.move.promotion)
  /\ Mates(state, result.move)

\* C19: in a position with at least one legal move, findBestMove does not
\* take its random branch: some root move's score is above -Infinity with
\* White to move, below +Infinity with Black to move.
C19_FallbackNeverTaken ==
  (result.op = "findBestMove" /\ Len(LegalMoves) >= 1) => ~result.fallback

\* The score of a root move: minimax at depth - 1, with the full window,
\* from the position after the move.
RootScore(S, m, depth) ==
  LET Searched(ns) ==
        minimax(ns, depth - 1, 0 - Infinity, Infinity, rootMaximizing(ns),
                TRUE, <<m>>, evalDetails).score
  IN  Searched(doMove(S, m))

\* C20: when no legal move mates at once, the move findBestMove(depth)
\* returns is a legal move whose score, minimax at depth - 1 from the
\* position after it, no other legal move strictly beats: no score is higher
\* with White to move, none is lower with Black to move.
C20_ReturnedMoveIsExtremum ==
  (result.op = "findBestMove" /\ ~result.threw) =>
    LET Best(legal) ==
          LET Among(scores) ==
                \E best \in scores :
                  /\ SameMove(legal[best[1]], result.move)
                  /\ \A other \in scores :
                       IF state.activeColor = "w"
                       THEN other[2] <= best[2] ELSE other[2] >= best[2]
          IN  (\A i \in 1 .. Len(legal) : ~Mates(state, legal[i]))
                => Among({<<i, RootScore(state, legal[i], searchDepth)>> :
                            i \in 1 .. Len(legal)})
    IN  Best(LegalMoves)

\* Black, to move with king and pawn each, searched at depth 2: the move
\* returned scores lower than some other legal move does.
C20_Witness ==
  /\ result.op = "findBestMove"
  /\ ~result.threw
  /\ ~result.fallback
  /\ fen = PawnsFen
  /\ moveHistory = <<>>
  /\ searchDepth = 2
  /\ searchPositions > 0
  /\ \E i \in 1 .. Len(LegalMoves) :
       RootScore(state, LegalMoves[i], 2) > RootScore(state, result.move, 2)

\* ===== Properties of the evaluation =====

\* The number of squares that hold the piece p.
CountPiece(p) ==
  Cardinality({sq \in Rows \X Rows : At(state, sq[1], sq[2]) = p})

\* White's material less Black's, in centipawns.
MaterialBalance ==
  100 * (CountPiece("P") - CountPiece("p"))
  + 320 * (CountPiece("N") - CountPiece("n"))
  + 330 * (CountPiece("B") - CountPiece("b"))
  + 500 * (CountPiece("R") - CountPiece("r"))
  + 900 * (CountPiece("Q") - CountPiece("q"))

\* The ranks the pawns have advanced from their starting ranks (row 6 for
\* White, row 1 for Black), White's less Black's.
PawnAdvance ==
  Sum([r \in 0 .. 7 |->
         (6 - r) * Cardinality({c \in Rows : At(state, r, c) = "P"})
         - (r - 1) * Cardinality({c \in Rows : At(state, r, c) = "p"})],
      0, 7)

\* C21: where the side to move has a king and a legal move, evaluate returns
\* material * 1.0 + positional * 0.5 (here in half centipawns), material
\* being the signed sum of the piece values and positional 5 per rank each
\* pawn has advanced, White's counted up and Black's down; the stored
\* details hold the same three numbers.
C21_EvaluateIsWeightedSum ==
  (/\ result.op = "evaluate"
   /\ findKing(state, state.activeColor) # NoSquare
   /\ LegalMoves # <<>>)
    => /\ result.score = ScoreScale * MaterialBalance + (ScoreScale \div 2) * 5 * PawnAdvance
       /\ evalDetails.material = MaterialBalance
       /\ evalDetails.positional = 5 * PawnAdvance
       /\ evalDetails.total = result.score

\* An evaluated position with pieces, unequal material and unequally
\* advanced pawns: the positional term changes the score.
C21_Witness ==
  /\ result.op = "evaluate"
  /\ LegalMoves # <<>>
  /\ MaterialBalance # 0
  /\ PawnAdvance # 0
  /\ result.score # ScoreScale * MaterialBalance
  /\ CountPiece("R") + CountPiece("N") + CountPiece("B") + CountPiece("Q") > 0

Abs(x) == IF x < 0 THEN 0 - x ELSE x

\* The side to move stands in check.
InCheck ==
  LET king == findKing(state, state.activeColor)
  IN  isSquareAttacked(state, king[1], king[2], oppositeColor(state.activeColor))

\* evaluate's answer for a side to move that has its king and no legal move.
NoMoveScored(legal) ==
  (findKing(state, state.activeColor) # NoSquare /\ legal = <<>>)
    => /\ evalDetails.material = 0
       /\ evalDetails.positional = 0
       /\ ~InCheck => result.score = 0
       /\ (InCheck /\ state.activeColor = "w")
            => result.score = 0 - 100000 * ScoreScale
       /\ (InCheck /\ state.activeColor = "b")
            => result.score = 100000 * ScoreScale

\* C22, as stated: evaluate counts no material on a terminal position; with
\* no legal move it scores 0 when the king of the side to move is not
\* attacked, -100000 when White is mated and +100000 when Black is mated; and
\* a position in which a king is missing scores a large-magnitude value.
C22_AnyMissingKingScoresLarge ==
  result.op = "evaluate" =>
    /\ NoMoveScored(LegalMoves)
    /\ (findKing(state, "w") = NoSquare \/ findKing(state, "b") = NoSquare)
         => Abs(result.score) >= MateScore * ScoreScale

\* C22, amended: the same, with the large-magnitude score (-Infinity for
\* White, +Infinity for Black) given when the king of the side to move is
\* missing; the other side's king is not looked for.
C22_TerminalScores ==
  result.op = "evaluate" =>
    /\ NoMoveScored(LegalMoves)
    /\ findKing(state, state.activeColor) = NoSquare
         => /\ evalDetails.material = 0
            /\ evalDetails.positional = 0
            /\ result.score = IF state.activeColor = "w" THEN 0 - Infinity
                              ELSE Infinity

\* White has been mated by the promotion on c1: the score is -100000 and no
\* material is counted, though Black is a queen or a rook up.
C22_Witness ==
  /\ result.op = "evaluate"
  /\ fen = BlackMatesFen
  /\ Len(moveHistory) = 1
  /\ state.activeColor = "w"
  /\ LegalMoves = <<>>
  /\ InCheck
  /\ result.score = 0 - MateScore * ScoreScale
  /\ MaterialBalance < 0
  /\ evalDetails.material = 0

\* ----- C23: instances are isolated -----

RECURSIVE OwnCalls(_, _, _)
\* The instance e after the calls of log from the k-th on, made on it alone.
OwnCalls(e, log, k) ==
  IF k > Len(log) THEN e ELSE OwnCalls(call(e, log[k]), log, k + 1)

C24_SideAndFullmove ==
  /\ [][Committed =>
          /\ state'.activeColor # state.activeColor
          /\ state'.activeColor \in {"w", "b"}
          /\ state'.fullmove = IF state.activeColor = "b"
                               THEN state.fullmove + 1 ELSE state.fullmove]_vars
  /\ [](fen = START_FEN =>
          /\ state.activeColor = "w" <=> Len(moveHistory) % 2 = 0
          /\ state.fullmove = 1 + Len(moveHistory) \div 2)

\* Four moves were committed from the standard start, two by each side: the
\* third full move begins.
C24_Witness ==
  /\ fen = START_FEN
  /\ Len(moveHistory) = 4
  /\ state.activeColor = "w"
  /\ state.fullmove = 3

\* ----- C25: the search ends within its depth -----

\* The number of positions at 1 .. d plies below S in the tree of legal
\* moves.
RECURSIVE TreeSize(_, _)
TreeSize(S, d) ==
  IF d = 0 THEN 0
  ELSE LET Count(legal) ==
             Sum([k \in 1 .. Len(legal) |->
                    1 + TreeSize(doMove(S, legal[k]), d - 1)],
                 1, Len(legal))
       IN  Count(generateLegalMoves(S).moves)

\* C25: findBestMove(depth) ends for every depth from 1 on, and minimax is
\* never called more than depth - 1 plies below a root move: the number of
\* minimax calls, searchPositions, is at most the number of positions within
\* depth plies of the root, and at depth 1, when no move mates at once and
\* the call does not throw, it is exactly the number of legal root moves
\* (each call returns at once, at depth 0).
C25_SearchEndsWithinDepth ==
  result.op = "findBestMove" =>
    LET Bounded(legal) ==
          /\ searchDepth \in 1 .. MaxDepth
          /\ searchPositions <= TreeSize(state, searchDepth)
          /\ (/\ ~result.threw
              /\ \A i \in 1 .. Len(legal) : ~Mates(state, legal[i]))
               => /\ searchPositions >= Len(legal)
                  /\ searchDepth = 1 => searchPositions = Len(legal)
    IN  Bounded(LegalMoves)

\* A search at depth 2 that called minimax on every root move and on
\* replies to them, and one at depth 1 with as many calls as root moves, are
\* both reached; this is the one at depth 2.
C25_Witness ==
  /\ result.op = "findBestMove"
  /\ ~result.threw
  /\ fen = PawnsFen
  /\ searchDepth = 2
  /\ searchPositions > Len(LegalMoves)
  /\ searchPositions <= TreeSize(state, 2)
  /\ Len(LegalMoves) > 1

\* ----- C26: both kings stay on the board -----

\* C26: in every position reached from the standard start by committed
\* legal moves the board holds exactly one white king and exactly one black
\* king, and no committed move lands on a king's square or takes a king by
\* any other means.
C26_BothKingsStay ==
  /\ [](fen = START_FEN => CountPiece("K") = 1 /\ CountPiece("k") = 1)
  /\ [][Committed =>
          /\ toLowerCase(At(state, result'.move.to[1], result'.move.to[2]))
               # "k"
          /\ toLowerCase(result'.move.capture) # "k"
          /\ findKing(state', "w") # NoSquare
          /\ findKing(state', "b") # NoSquare]_vars

\* The white queen has taken a pawn next to the black king and gives check:
\* the king is attacked, and still on the board.
C26_Witness ==
  /\ fen = START_FEN
  /\ Len(moveHistory) = 5
  /\ state.activeColor = "b"
  /\ InCheck
  /\ Truthy(moveHistory[5].capture)
  /\ CountPiece("K") = 1
  /\ CountPiece("k") = 1

\* ----- C27: minimax on a position without legal moves -----

\* The score minimax(state, depth, -Infinity, Infinity, ...) returns for the
\* current position.
NoMoveSearch(depth, originalSide) ==
  minimax(state, depth, 0 - Infinity, Infinity, state.activeColor = "w",
          originalSide, <<>>, evalDetails).score

\* C27: minimax called at depth >= 1 on a position whose side to move has
\* no legal move returns -100000 if White is to move and in check, +100000
\* if Black is to move and in check, and 0 if the side to move is not in
\* check; and this is the value evaluate gives the same position.
C27_NoMoveScoreAgreesWithEvaluate ==
  LET Agree(legal, static, king) ==
        legal = <<>> =>
          \A depth \in 1 .. MaxDepth :
            \A originalSide \in BOOLEAN :
              /\ NoMoveSearch(depth, originalSide) =
                   IF king # NoSquare /\ InCheck
                   THEN IF state.activeColor = "w"
                        THEN 0 - 100000 * ScoreScale
                        ELSE 100000 * ScoreScale
                   ELSE 0
              /\ NoMoveSearch(depth, originalSide) = static
  IN  Agree(LegalMoves, evaluate(state).score,
            findKing(state, state.activeColor))

\* ----- C28: pruning does not change the result -----

\* The greatest and the least of a non-empty set of scores.
Greatest(scores) == CHOOSE x \in scores : \A y \in scores : y <= x
Least(scores) == CHOOSE x \in scores : \A y \in scores : y >= x

\* Minimax over all legal moves to the given depth, without alpha and beta:
\* the static evaluation at depth 0, the terminal score of a position
\* without legal moves, and otherwise the greatest (maximizing) or least
\* score of the positions after the legal moves.
RECURSIVE Unpruned(_, _, _, _)
Unpruned(S, depth, isMaximizing, originalSide) ==
  IF depth = 0 THEN evaluate(S).score
  ELSE LET Node(legal, king) ==
             IF legal = <<>>
             THEN IF king = NoSquare
                  THEN IF originalSide THEN 0 - Infinity ELSE Infinity
                  ELSE IF isSquareAttacked(S, king[1], king[2],
                                           oppositeColor(S.activeColor))
                  THEN IF S.activeColor = "w" THEN 0 - MateScore * ScoreScale
                       ELSE MateScore * ScoreScale
                  ELSE 0
             ELSE LET Pick(scores) ==
                        IF isMaximizing THEN Greatest(scores)
                        ELSE Least(scores)
                  IN  Pick({Unpruned(doMove(S, legal[k]), depth - 1,
                                     ~isMaximizing, originalSide) :
                              k \in 1 .. Len(legal)})
       IN  Node(generateLegalMoves(S).moves, findKing(S, S.activeColor))

\* The score of the root move m of a search of S to the given depth, without
\* pruning.
UnprunedRootScore(S, m, depth) ==
  LET Searched(ns) == Unpruned(ns, depth - 1, ns.activeColor = "w", TRUE)
  IN  Searched(doMove(S, m))

\* C28: alpha-beta pruning does not change the result.  For every root move
\* of a search, minimax with the full window returns the score of the
\* unpruned minimax to the same depth, and findBestMove returns the move the
\* unpruned scores select: the first legal move with the greatest score when
\* White is to move, with the least when Black is to move.
C28_PruningKeepsResult ==
  (result.op = "findBestMove" /\ ~result.threw /\ ~result.fallback) =>
    LET Same(legal) ==
          LET Chosen(scores) ==
                /\ \A i \in 1 .. Len(legal) :
                     RootScore(state, legal[i], searchDepth) = scores[i]
                /\ \E best \in 1 .. Len(legal) :
                     /\ SameMove(legal[best], result.move)
                     /\ \A other \in 1 .. Len(legal) :
                          IF state.activeColor = "w"
                          THEN /\ scores[other] <= scores[best]
                               /\ other < best => scores[other] < scores[best]
                          ELSE /\ scores[other] >= scores[best]
                               /\ other < best => scores[other] > scores[best]
          IN  (\A i \in 1 .. Len(legal) : ~Mates(state, legal[i]))
                => Chosen([i \in 1 .. Len(legal) |->
                             UnprunedRootScore(state, legal[i], searchDepth)])
    IN  Same(LegalMoves)

\* A search to depth 3 of the kings and pawns that cut off branches.
C28_Witness ==
  /\ result.op = "findBestMove"
  /\ ~result.threw
  /\ ~result.fallback
  /\ fen = PawnsFen
  /\ searchDepth = 3
  /\ pruned > 0
  /\ searchPositions < TreeSize(state, 3)

\* ----- C29: the principal variation -----

\* What minimax returns for the root move m of a search of S to the given
\* depth.
RootSearch(S, m, depth) ==
  LET Searched(ns) ==
        minimax(ns, depth - 1, 0 - Infinity, Infinity, rootMaximizing(ns),
                TRUE, <<m>>, evalDetails)
  IN  Searched(doMove(S, m))

\* The moves of pv from the k-th on are legal, each in the position the
\* moves before it lead to from S, and the position at the end is scored
\* score by evaluate.
RECURSIVE LegalLine(_, _, _, _)
LegalLine(S, pv, k, score) ==
  IF k > Len(pv) THEN evaluate(S).score = score
  ELSE LET Played(legal) ==
             /\ \E i \in 1 .. Len(legal) : legal[i] = pv[k]
             /\ LegalLine(doMove(S, pv[k]), pv, k + 1, score)
       IN  Played(generateLegalMoves(S).moves)

\* C29: the principal variation minimax returns for a root move m (full
\* window) starts with m, has at most depth moves, each of its moves is
\* legal in the position reached by the moves before it, and the returned
\* score is the static evaluation or terminal score of the position at the
\* end of the variation.
C29_PrincipalVariation ==
  result.op = "findBestMove" =>
    LET Lines(legal) ==
          \A i \in 1 .. Len(legal) :
            LET Line(res) ==
                  /\ Len(res.sequence) >= 1
                  /\ res.sequence[1] = legal[i]
                  /\ Len(res.sequence) <= searchDepth
                  /\ LegalLine(state, res.sequence, 1, res.score)
            IN  Line(RootSearch(state, legal[i], searchDepth))
    IN  Lines(LegalMoves)

\* ----- C30: the attack oracle and the move generator -----

Sign(x) == IF x > 0 THEN 1 ELSE IF x < 0 THEN -1 ELSE 0

\* The piece on (fr, fc) attacks the square (r, c) by the rules of chess: a
\* pawn one row forward and one file aside, a knight by its jump, a king
\* next to it, a bishop, rook or queen along a line with every square
\* between empty.
Reaches(S, fr, fc, r, c) ==
  LET p == At(S, fr, fc)
      kind == toLowerCase(p)
      dr == r - fr
      dc == c - fc
      n == IF Abs(dr) >= Abs(dc) THEN Abs(dr) ELSE Abs(dc)
      clear == \A k \in 1 .. n - 1 :
                 ~Truthy(At(S, fr + k * Sign(dr), fc + k * Sign(dc)))
      diagonal == Abs(dr) = Abs(dc) /\ n > 0
      straight == (dr = 0) # (dc = 0)
  IN  CASE kind = "p" ->
             dr = (IF pieceColor(p) = "w" THEN -1 ELSE 1) /\ Abs(dc) = 1
        [] kind = "n" -> {Abs(dr), Abs(dc)} = {1, 2}
        [] kind = "k" -> n = 1
        [] kind = "b" -> diagonal /\ clear
        [] kind = "r" -> straight /\ clear
        [] kind = "q" -> (diagonal \/ straight) /\ clear
        [] OTHER -> FALSE

\* C30: the attack oracle agrees with the move generator.  For every
\* position, side and square occupied by a piece of the other side,
\* isSquareAttacked(position, square, side) is true iff the pseudo-legal
\* generator, with that side to move, produces a capture whose destination
\* is that square; and both are true iff a piece of that side attacks the
\* square by the rules: sliding attacks stop at the first occupied square
\* and pawns attack diagonally forward only.
C30_OracleAgreesWithGenerator ==
  \A side \in {"w", "b"} :
    LET Agree(moves) ==
          \A sq \in Rows \X Rows :
            (/\ Truthy(At(state, sq[1], sq[2]))
             /\ pieceColor(At(state, sq[1], sq[2])) = oppositeColor(side))
              => /\ isSquareAttacked(state, sq[1], sq[2], side)
                      <=> \E k \in 1 .. Len(moves) :
                            /\ Truthy(moves[k].capture)
                            /\ moves[k].to = sq
                 /\ isSquareAttacked(state, sq[1], sq[2], side)
                      <=> \E from \in Rows \X Rows :
                            /\ Truthy(At(state, from[1], from[2]))
                            /\ pieceColor(At(state, from[1], from[2])) = side
                            /\ Reaches(state, from[1], from[2], sq[1], sq[2])
    IN  Agree(generatePseudoLegalMoves([state EXCEPT !.activeColor = side]))

\* After 1. e4 d5 the white pawn on e4 attacks the pawn on d5 and the
\* generator captures it; the white queen stands on the file of the black
\* queen behind its own pawn, and does not attack it.
C30_Witness ==
  /\ fen = START_FEN
  /\ Len(moveHistory) = 2
  /\ At(state, 4, 4) = "P"
  /\ At(state, 3, 3) = "p"
  /\ isSquareAttacked(state, 3, 3, "w")
  /\ \E k \in 1 .. Len(PseudoMoves) :
       PseudoMoves[k].from = <<4, 4>> /\ PseudoMoves[k].to = <<3, 3>>
  /\ ~isSquareAttacked(state, 4, 4, "w")
  /\ At(state, 7, 3) = "Q"
  /\ At(state, 0, 3) = "q"
  /\ ~isSquareAttacked(state, 0, 3, "w")

\* ----- C31: promotions and double pushes -----

\* The pawn moves among the pseudo-legal moves keep the rules of the last
\* rank and of the double push.
PawnMovesKeepRules(moves) ==
  \A k \in 1 .. Len(moves) :
    LET m == moves[k]
        twin == {j \in 1 .. Len(moves) :
                   moves[j].from = m.from /\ moves[j].to = m.to}
    IN  toLowerCase(m.piece) = "p" =>
          /\ m.to[1] \in {0, 7} =>
               /\ Truthy(m.promotion)
               /\ Cardinality(twin) = 4
               /\ {moves[j].promotion : j \in twin} = {"q", "r", "b", "n"}
          /\ m.to[1] \notin {0, 7} => ~Truthy(m.promotion)
          /\ Abs(m.to[1] - m.from[1]) = 2 =>
               /\ m.from[1] = (IF m.piece = "P" THEN 6 ELSE 1)
               /\ m.to[2] = m.from[2]
               /\ ~Truthy(At(state, (m.from[1] + m.to[1]) \div 2, m.from[2]))
               /\ ~Truthy(At(state, m.to[1], m.to[2]))

\* C31: every pawn move onto the last rank is generated exactly four times,
\* once for each of queen, rook, bishop and knight, and never without a
\* promotion; a double push is generated only from the pawn's starting rank
\* when the intermediate and the destination square are empty; and in every
\* position reached from the standard start no pawn stands on rank 1 or
\* rank 8.
C31_PromotionsAndDoublePushes ==
  /\ PawnMovesKeepRules(PseudoMoves)
  /\ fen = START_FEN =>
       \A c \in Rows : /\ toLowerCase(At(state, 0, c)) # "p"
                       /\ toLowerCase(At(state, 7, c)) # "p"

\* From the standard start the h-pawn has taken its way to g8 and stands
\* there as a knight: no pawn is on the last rank.
C31_Witness ==
  /\ fen = START_FEN
  /\ Len(moveHistory) = 9
  /\ moveHistory[9].piece = "P"
  /\ moveHistory[9].to = <<0, 6>>
  /\ moveHistory[9].promotion = "n"
  /\ At(state, 0, 6) = "N"
  /\ CountPiece("P") = 7

\* ----- C32: makeMove does not check the move -----

\* C32: makeMove performs no legality check and never rejects a move.  For
\* every move object with its squares on the board, legal or not, the call
\* does not throw, the piece of the source square (or the promotion piece in
\* the colour of the source square) stands on the destination, the source
\* square is empty unless it is the destination, the side to move flips, the
\* move is appended to moveHistory and the key of the new position to
\* positionHistory.
C32_MakeMoveNeverRejects ==
  [][result'.op = "makeMove" =>
       LET m == result'.move
           piece == At(state, m.from[1], m.from[2])
       IN  /\ ~result'.threw
           /\ state'.activeColor = oppositeColor(state.activeColor)
           /\ moveHistory' = Append(moveHistory, m)
           /\ Len(positionHistory') = Len(positionHistory) + 1
           /\ positionHistory'[Len(positionHistory')] = positionKey(state')
           /\ lastMoveFrom' = m.from
           /\ lastMoveTo' = m.to
           /\ At(state', m.to[1], m.to[2]) =
                IF ~Truthy(m.promotion) THEN piece
                ELSE IF piece = toUpperCase(piece)
                THEN toUpperCase(m.promotion) ELSE toLowerCase(m.promotion)
           /\ m.from # m.to => At(state', m.from[1], m.from[2]) = ""]_vars

\* Two commits from the standard start that no generator produced: the
\* white e-pawn went from e2 to e8 and took the black king, and then an
\* empty square "moved" from e4.
C32_Witness ==
  /\ fen = START_FEN
  /\ Len(moveHistory) = 2
  /\ moveHistory[1].from = <<6, 4>>
  /\ moveHistory[1].to = <<0, 4>>
  /\ moveHistory[2].piece = ""
  /\ Len(positionHistory) = 3
  /\ state.activeColor = "w"
  /\ state.fullmove = 2
  /\ findKing(state, "b") = NoSquare
  /\ At(state, 0, 4) = "P"

\* ----- C33: castling rights, kings and rooks -----

\* The right held implies the king and the rook at home.
RightAtHome(right, row, king, rookCol, rook) ==
  right => At(state, row, 4) = king /\ At(state, row, rookCol) = rook

\* C33: in every position reached from the standard start by committed
\* legal moves, a held castling right implies that the king of that colour
\* stands on its home square and a rook of that colour on the corner of the
\* right; so every generated castling move relocates an own rook.
C33_RightsImplyKingAndRook ==
  fen = START_FEN =>
    /\ RightAtHome(state.castling.wK, 7, "K", 7, "R")
    /\ RightAtHome(state.castling.wQ, 7, "K", 0, "R")
    /\ RightAtHome(state.castling.bK, 0, "k", 7, "r")
    /\ RightAtHome(state.castling.bQ, 0, "k", 0, "r")
    /\ LET Castles(moves) ==
             \A k \in 1 .. Len(moves) :
               Truthy(moves[k].flags.castle) =>
                 At(state, moves[k].from[1],
                    IF moves[k].flags.castle = "K" THEN 7 ELSE 0)
                   = (IF state.activeColor = "w" THEN "R" ELSE "r")
       IN  Castles(PseudoMoves)

\* White is about to castle short, the move is generated; Black's rook has
\* been to g8 and back, and Black's right on that wing is gone although king
\* and rook stand at home.
C33_Witness ==
  /\ fen = START_FEN
  /\ Len(moveHistory) = 6
  /\ state.castling.wK
  /\ \E k \in 1 .. Len(LegalMoves) : LegalMoves[k].flags.castle = "K"
  /\ ~state.castling.bK
  /\ state.castling.bQ
  /\ At(state, 0, 7) = "r"
  /\ At(state, 0, 4) = "k"

\* ----- C34: own moves and the server's acceptance -----

\* C34: in a multiplayer game a player's own move is committed to the local
\* engine only after the server has accepted it, in the step that handles
\* the successful /api/chess-move response for that move; this holds for
\* every kind of move, promotions chosen in the overlay included; and a move
\* the server rejects or that times out leaves the local position and the
\* histories unchanged.
C34_OwnMoveOnlyAfterAcceptance ==
  [][page.multiplayerStarted =>
       /\ (/\ Len(moveHistory') = Len(moveHistory) + 1
           /\ pieceColor(moveHistory'[Len(moveHistory')].piece) = OurLetter)
          => \E i \in 1 .. Len(page.requests) :
               /\ page.requests[i].reply = "success"
               /\ page.requests[i].move = moveHistory'[Len(moveHistory')]
               /\ page'.requests = Without(page.requests, i)
       /\ (\E i \in 1 .. Len(page.requests) :
             /\ page.requests[i].reply = "failure"
             /\ page'.requests = Without(page.requests, i))
          => /\ state' = state
             /\ moveHistory' = moveHistory
             /\ positionHistory' = positionHistory]_vars

\* ----- C35: one own move per turn -----

\* C35: in a multiplayer game, while a move sent by ChessMultiplayer.makeMove
\* awaits the server's response no second move is sent, and no two moves in
\* a row are committed to the local engine for the same side: at most one
\* own move per own turn, the movers alternating between the two players.
C35_OneOwnMovePerTurn ==
  page.multiplayerStarted =>
    /\ Len(page.requests) <= 1
    /\ \A i \in 1 .. Len(moveHistory) - 1 :
         pieceColor(moveHistory[i].piece) #
           pieceColor(moveHistory[i + 1].piece)

\* ----- C36: one getMove request at a time -----

\* C36: for a tournament game at most one getMove request is outstanding
\* (posted to the worker and not yet answered by a move message) at any
\* time, under any interleaving of worker replies, the 100 ms re-request
\* timer and Pause/Resume clicks.
C36_OneRequestOutstanding == Outstanding <= 1

\* ----- C37: no request to a paused or finished game -----

\* The move message a worker posts for a finished game.
GameOverMessage == [type |-> "move", move |-> NoMove, gameOver |-> TRUE]

\* C37: a getMove request is posted only for a game that is, as the request
\* is made, neither paused nor marked over; a worker that takes a getMove
\* request in a finished game answers with move null and gameOver true and
\* commits nothing; and the worker engine's position and histories never
\* change once its game is over.
C37_NoMoveAfterGameOver ==
  [][/\ Outstanding' > Outstanding
          => ~page'.paused /\ ~page'.gameOver /\ ~page.gameOver
     /\ (/\ page.inbox # <<>>
         /\ page'.inbox = Tail(page.inbox)
         /\ Head(page.inbox) = "getMove"
         /\ isGameOver(state, positionHistory))
          => /\ page'.outbox = Append(page.outbox, GameOverMessage)
             /\ moveHistory' = moveHistory
     /\ isGameOver(state, positionHistory)
          => /\ state' = state
             /\ moveHistory' = moveHistory
             /\ positionHistory' = positionHistory]_vars

\* White is mated after f3 e5 g4 Qh4; the worker has said so, the game is
\* marked over while not paused, and no request, answer or timer is left.
C37_Witness ==
  /\ Len(moveHistory) = 4
  /\ isGameOver(state, positionHistory)
  /\ page.gameOver
  /\ ~page.paused
  /\ Chains = 0

\* ----- C38: the board kept on the main thread -----

\* The same piece, or none, on a square of two boards.
SamePiece(a, b) == IF Truthy(a) THEN a = b ELSE ~Truthy(b)

\* C38: once every move message of a tournament game is handled, the board
\* kept on the main thread has the same piece on every square as the board
\* of the worker engine that committed the moves, whatever the kind of move.
C38_BoardFollowsWorker ==
  (/\ page.board # NoBoard
   /\ \A i \in 1 .. Len(page.outbox) : page.outbox[i].gameOver)
    => \A r \in Rows, c \in Rows :
         SamePiece(page.board[r][c], At(state, r, c))

\* ----- C39: no move after checkEnd declared the game over -----

\* C39: in the single-engine game loop, once checkEnd has declared the game
\* over (setting gameStarted to false), no further move is committed to
\* mainEngine, by a scheduled bot move or by a click, until a new game is
\* started or a position is loaded.
C39_NoMoveAfterDeclaredOver ==
  [][page.declared => Len(moveHistory') # Len(moveHistory) + 1]_vars

\* ----- C40: the side each minimax node plays for -----

\* C40: at every minimax node reached from findBestMove, isMaximizing is
\* true exactly when White is to move in the node's position: for every root
\* move of a search, the call of minimax on the position after it, and every
\* call below that one down to the search depth, was made with isMaximizing
\* equal to (activeColor = "w") of the position it was called on.
C40_MaximizingIffWhiteToMove ==
  result.op = "findBestMove" =>
    LET Sided(legal) ==
          \A i \in 1 .. Len(legal) :
            RootSearch(state, legal[i], searchDepth).sided
    IN  Sided(LegalMoves)

\* A search at depth 2 with Black to move at the root that went below the
\* root moves: minimax was called with White to move (after a root move) and
\* with Black to move (after White's reply).
C40_Witness ==
  /\ result.op = "findBestMove"
  /\ ~result.threw
  /\ searchDepth = 2
  /\ state.activeColor = "b"
  /\ Len(LegalMoves) >= 1
  /\ searchPositions >= 2 * Len(LegalMoves)

=============================================================================
